---- MODULE Spec2Model ----
(***************************************************************************)
(* Hierarchical notification service (maka4h/notification-system).         *)
(*                                                                         *)
(* The model covers the subscription store, the notification store, the    *)
(* live-push channel and the three code paths that change them:            *)
(*   - EventProcessor.process_event      (app/services/event_processor.py) *)
(*   - SubscriptionService.create_subscription / delete_subscription       *)
(*   - NotificationService.mark_as_read / bulk_mark_as_read                *)
(* Every `await` on the database or on NATS is a point where another       *)
(* coroutine may run, so each handler is cut into one action per database  *)
(* transaction / publish.                                                  *)
(*                                                                         *)
(* Strings that the code inspects character by character (paths) are       *)
(* sequences of one-character strings; "/a/b" is <<"/","a","/","b">>.      *)
(***************************************************************************)
EXTENDS Integers, Sequences, FiniteSets, Bags, TLC

\* ------------------------------------------------------------------ bounds
MaxSubs == 2        \* subscription rows ever inserted
MaxEvents == 1      \* events delivered to process_event
MaxInflight == 1    \* API requests suspended between two awaits
MaxRacing == 2      \* the same, in the subscription-only specification
MaxFaultEvents == 2 \* events delivered in the specification with failures
MaxFreshEvents == 2 \* events delivered between changes of the subscriptions
MaxTitleLen == 5    \* characters of a path handed to the title generation
MaxParentLen == 3   \* characters of the first argument of is_child_path
MaxChildLen == 5    \* characters of the second argument of is_child_path
MaxPathLen == 6     \* characters of a path handed to the ancestor enumeration

\* ------------------------------------------------------- program constants
SYSTEM == "system"                   \* event_processor.py:79

\* ------------------------------------------------------------ input domains
Users == {"alice", "bob"}
EventTypes == {"created", "updated"}

\* Python None for a column / argument that holds an id.
NoId == 0

\* Optional[List[str]]: None, or a list.
NoneTypes == [isNone |-> TRUE, items |-> <<>>]
ListOf(l) == [isNone |-> FALSE, items |-> l]

\* payload.get("object_path") / payload.get("event_type"): None when the key
\* is absent or null, otherwise the value.
NonePath == [some |-> FALSE, val |-> <<>>]
NoneType == [some |-> FALSE, val |-> ""]
Some(v) == [some |-> TRUE, val |-> v]

\* ------------------------------------------------------------------- paths
P_root == <<"/">>
P_a == <<"/", "a">>
P_ab == <<"/", "a", "/", "b">>
P_abc == <<"/", "a", "/", "b", "/", "c">>
P_a_rel == <<"a">>
P_a_trail == <<"/", "a", "/">>
P_ab_trail == <<"/", "a", "/", "b", "/">>
P_ax == <<"/", "a", "x">>
P_a_x == <<"/", "a", "/", "x">>
P_ab_rel == <<"a", "/", "b">>

\* str.startswith('/')
StartsWithSlash(s) == Len(s) > 0 /\ s[1] = "/"

\* str.endswith('/')
EndsWithSlash(s) == Len(s) > 0 /\ s[Len(s)] = "/"

\* Mutant: the slash is put in front whatever the path starts with.
NormalizePath_AlwaysPrepends(p) == <<"/">> \o p

\* event_processor.py:41 and notification_service.py:224 -- only a leading
\* slash is added.
NormalizePath(p) == IF StartsWithSlash(p) THEN p ELSE <<"/">> \o p

\* str.split('/')
RECURSIVE Split(_)
Split(s) ==
    IF s = <<>> THEN << <<>> >>
    ELSE IF Head(s) = "/" THEN << <<>> >> \o Split(Tail(s))
    ELSE LET r == Split(Tail(s)) IN << <<Head(s)>> \o Head(r) >> \o Tail(r)

\* '/'.join(parts)
RECURSIVE Join(_)
Join(parts) ==
    IF Len(parts) = 0 THEN <<>>
    ELSE IF Len(parts) = 1 THEN parts[1]
    ELSE parts[1] \o <<"/">> \o Join(Tail(parts))

\* Mutant: the loop stops before the root, `range(len(parts)-1, 1, -1)`.
RECURSIVE ParentLoop_WithoutRoot(_, _)
ParentLoop_WithoutRoot(parts, i) ==
    IF i < 2 THEN <<>>
    ELSE LET joined == Join(SubSeq(parts, 1, i))
             parent_path == IF joined = <<>> THEN <<"/">> ELSE joined
         IN  <<parent_path>> \o ParentLoop_WithoutRoot(parts, i - 1)

\* EventProcessor._get_parent_paths: the loop `for i in range(len(parts)-1, 0, -1)`
RECURSIVE ParentLoop(_, _)
ParentLoop(parts, i) ==
    IF i < 1 THEN <<>>
    ELSE LET joined == Join(SubSeq(parts, 1, i))
             parent_path == IF joined = <<>> THEN <<"/">> ELSE joined
         IN  <<parent_path>> \o ParentLoop(parts, i - 1)

\* Mutant: the trailing slash is not cut off before the split.
_get_parent_paths_KeepsTrailingSlash(path) ==
    IF path = <<>> \/ path = <<"/">> THEN <<>>
    ELSE LET norm_path == IF StartsWithSlash(path) THEN path ELSE <<"/">> \o path
             parts == Split(norm_path)
         IN  ParentLoop(parts, Len(parts) - 1)

\* EventProcessor._get_parent_paths
_get_parent_paths(path) ==
    IF path = <<>> \/ path = <<"/">> THEN <<>>
    ELSE LET p1 == IF StartsWithSlash(path) THEN path ELSE <<"/">> \o path
             norm_path == IF EndsWithSlash(p1) /\ Len(p1) > 1
                          THEN SubSeq(p1, 1, Len(p1) - 1) ELSE p1
             parts == Split(norm_path)
         IN  ParentLoop(parts, Len(parts) - 1)

\* main.py get_parent_paths: the same statements as a module-level function.
get_parent_paths(path) ==
    IF path = <<>> \/ path = <<"/">> THEN <<>>
    ELSE LET p1 == IF StartsWithSlash(path) THEN path ELSE <<"/">> \o path
             norm_path == IF EndsWithSlash(p1) /\ Len(p1) > 1
                          THEN SubSeq(p1, 1, Len(p1) - 1) ELSE p1
             parts == Split(norm_path)
         IN  ParentLoop(parts, Len(parts) - 1)

Range(f) == {f[i] : i \in DOMAIN f}

\* All orders in which a query may return the rows of S.
Orders(S) == {f \in [1..Cardinality(S) -> S] : Range(f) = S}

\* `x in list`
InList(x, l) == \E i \in DOMAIN l : l[i] = x

\* ------------------------------------------------------------------- state
VARIABLES
    subscriptions,   \* rows of notifications.notification_subscriptions
    notifications,   \* rows of notifications.notifications
    published,       \* messages handed to nc.publish, in order
    sub_seq,         \* subscription ids handed out so far (uuid4 is fresh)
    notif_seq,       \* notification ids handed out so far (uuid4 is fresh)
    event_seq,       \* events delivered to process_event so far
    creating,        \* create_subscription calls suspended after the lookup
    deleting,        \* delete_subscription calls suspended before the commit
    ev,              \* the process_event call in progress
    failed,          \* ids of the events process_event logged and dropped
    call,            \* the last call under study: what was asked, what it answered
    event_types      \* rows of notifications.event_types (no code writes them)

vars == <<subscriptions, notifications, published, sub_seq, notif_seq,
          event_seq, creating, deleting, ev, failed, call, event_types>>

\* ------------------------------------------------------------ configuration
\* Optional[str] of the column event_types.default_severity_id.
NoSeverity == [some |-> FALSE, val |-> ""]

EventType(id, default_severity_id) ==
    [id |-> id, default_severity_id |-> default_severity_id, is_active |-> TRUE]

\* The rows the migration inserts into notifications.event_types.
SeededEventTypes ==
    { EventType("created", Some("info")),
      EventType("updated", Some("info")),
      EventType("deleted", Some("warning")),
      EventType("commented", Some("info")),
      EventType("status_changed", Some("info")),
      EventType("assigned", Some("info")) }

\* EventTypeRepository.get_by_id: the rows the SELECT matches (id is the
\* primary key).
get_by_id_event_type(event_type_id) ==
    {t \in event_types : t.id = event_type_id}

\* Mutant: the configuration is not consulted.
get_severity_for_event_type_AlwaysInfo(event_type) == "info"

\* ConfigurationService.get_severity_for_event_type
get_severity_for_event_type(event_type) ==
    LET rows == get_by_id_event_type(event_type)
    IN  IF rows # {} /\ (CHOOSE t \in rows : TRUE).default_severity_id.some
                    /\ (CHOOSE t \in rows : TRUE).default_severity_id.val # ""
        THEN (CHOOSE t \in rows : TRUE).default_severity_id.val
        ELSE "info"

\* main.py get_severity: the fixed map of the single-file service.
get_severity(event_type) ==
    IF event_type \in {"created", "updated", "commented"} THEN "info"
    ELSE IF event_type \in {"deleted", "warning"} THEN "warning"
    ELSE IF event_type = "error" THEN "error"
    ELSE IF event_type = "alert" THEN "critical"
    ELSE "info"

\* ----------------------------------------------------------- request bodies
\* schemas.SubscriptionCreate: the request bodies the clients send.
Body(path, include_children, notification_types, settings) ==
    [path |-> path, include_children |-> include_children,
     notification_types |-> notification_types, settings |-> settings]

SubscriptionCreate ==
    { Body(P_a, TRUE, NoneTypes, "none"),
      Body(P_a_rel, FALSE, ListOf(<<"created">>), "email"),
      Body(P_ab, FALSE, ListOf(<<>>), "none"),
      Body(P_ab, TRUE, ListOf(<<"created">>), "email"),
      Body(P_a_trail, TRUE, NoneTypes, "none") }

SubPathInputs == {d.path : d \in SubscriptionCreate}

\* The JSON bodies the event generator (or any publisher) sends: the
\* object_path and event_type keys of the payload.
Event(object_path, event_type) ==
    [object_path |-> object_path, event_type |-> event_type]

EventInputs ==
    { Event(Some(P_ab), Some("created")),
      Event(Some(P_ab), Some("updated")),
      Event(Some(P_abc), Some("updated")),
      Event(Some(P_ab_trail), Some("created")),
      Event(Some(P_ax), Some("created")),
      Event(NonePath, Some("created")),
      Event(Some(P_ab), Some("")),
      Event(Some(<<>>), NoneType) }

\* No helper call under study.
NoCall == [op |-> "none", arg |-> <<>>, result |-> <<>>]

Inflight == BagCardinality(creating) + Cardinality(deleting)

\* The state of process_event when no call is in progress.
Idle == [pc |-> "idle", id |-> 0, normalized_path |-> <<>>, event_type |-> "",
         payload |-> [id |-> 0, object_path |-> NonePath,
                      event_type |-> NoneType, system_event |-> FALSE],
         parent_paths |-> <<>>, subscriptions |-> <<>>, subscribed_users |-> <<>>,
         i |-> 0, notification |-> <<>>, rejected |-> {}, expired |-> FALSE,
         write_failed |-> {}, unpushed |-> {}]

Init ==
    /\ subscriptions = {}
    /\ notifications = {}
    /\ published = <<>>
    /\ sub_seq = 0
    /\ notif_seq = 0
    /\ event_seq = 0
    /\ creating = EmptyBag
    /\ deleting = {}
    /\ ev = Idle
    /\ failed = {}
    /\ call = NoCall
    /\ event_types = SeededEventTypes

\* ------------------------------------------------------------ subscriptions
\* SubscriptionRepository.get_by_user_and_path: the rows the SELECT matches.
\* scalar_one_or_none() returns the row, None for no row, and raises
\* MultipleResultsFound for more than one.
get_by_user_and_path(user_id, path) ==
    {s \in subscriptions : s.user_id = user_id /\ s.path = path}

\* create_subscription up to the end of `await get_by_user_and_path`.  Only
\* the path of the request body has been read at this point; the other fields
\* are first read after the lookup and are drawn there.
create_subscription_lookup(user_id, raw_path) ==
    LET path == NormalizePath(raw_path)
        rows == get_by_user_and_path(user_id, path)
    IN  /\ Cardinality(rows) <= 1          \* otherwise the call raises (HTTP 500)
        /\ creating' = creating (+) SetToBag({
               [user_id |-> user_id, path |-> path,
                existing |-> IF rows = {} THEN NoId
                             ELSE (CHOOSE s \in rows : TRUE).id]})
        /\ UNCHANGED <<subscriptions, notifications, published, sub_seq,
                       notif_seq, event_seq, deleting, ev, failed, call, event_types>>

\* Mutant: the update forgets to assign settings.
UpdateExisting_KeepsSettings(rows, id, subscription_data) ==
    {IF s.id = id
     THEN [s EXCEPT !.include_children = subscription_data.include_children,
                    !.notification_types = subscription_data.notification_types]
     ELSE s : s \in rows}

\* The `if existing:` branch: the three assignments and the UPDATE issued by
\* SubscriptionRepository.update's commit (by primary key).
UpdateExisting(rows, id, subscription_data) ==
    {IF s.id = id
     THEN [s EXCEPT !.include_children = subscription_data.include_children,
                    !.notification_types = subscription_data.notification_types,
                    !.settings = subscription_data.settings]
     ELSE s : s \in rows}

\* The `# Create new` branch: the row SubscriptionRepository.create inserts.
NewSubscription(id, user_id, path, subscription_data) ==
    [id |-> id, user_id |-> user_id, path |-> path,
     include_children |-> subscription_data.include_children,
     notification_types |-> subscription_data.notification_types,
     settings |-> subscription_data.settings,
     created_at |-> id]

\* create_subscription from the lookup's result to the commit.
create_subscription_commit(r, subscription_data) ==
    /\ BagIn(r, creating)
    /\ NormalizePath(subscription_data.path) = r.path
    /\ creating' = creating (-) SetToBag({r})
    /\ IF r.existing # NoId
       THEN /\ subscriptions' = UpdateExisting(subscriptions, r.existing, subscription_data)
            /\ UNCHANGED sub_seq
       ELSE /\ sub_seq < MaxSubs
            /\ sub_seq' = sub_seq + 1
            /\ subscriptions' = subscriptions \cup
                   {NewSubscription(sub_seq + 1, r.user_id, r.path, subscription_data)}
    /\ UNCHANGED <<notifications, published, notif_seq, event_seq, deleting, ev,
                   failed, call, event_types>>

\* SubscriptionRepository.get_by_id
get_by_id_subscription(subscription_id, user_id) ==
    {s \in subscriptions : s.id = subscription_id /\ s.user_id = user_id}

\* delete_subscription up to the flush: get_by_id, then inside the (not yet
\* committed) transaction UPDATE notifications SET subscription_id = NULL
\* WHERE subscription_id = :id.  `nulled` are the rows that UPDATE matched.
delete_subscription_update(subscription_id, user_id) ==
    /\ get_by_id_subscription(subscription_id, user_id) # {}
    /\ deleting' = deleting \cup
           {[id |-> subscription_id, user_id |-> user_id,
             nulled |-> {n.id : n \in {m \in notifications :
                                         m.subscription_id = subscription_id}}]}
    /\ UNCHANGED <<subscriptions, notifications, published, sub_seq,
                   notif_seq, event_seq, creating, ev, failed, call, event_types>>

\* Mutant: the delete cascades to the notifications that refer to the row.
delete_subscription_commit_Cascade(d) ==
    /\ d \in deleting
    /\ deleting' = deleting \ {d}
    /\ subscriptions' = {s \in subscriptions : s.id # d.id}
    /\ notifications' = {n \in notifications : n.subscription_id # d.id}
    /\ UNCHANGED <<published, sub_seq, notif_seq, event_seq, creating, ev, failed, call, event_types>>

\* Mutant: the row is deleted whatever refers to it, and the references stay.
delete_subscription_commit_KeepsReferences(d) ==
    /\ d \in deleting
    /\ deleting' = deleting \ {d}
    /\ subscriptions' = {s \in subscriptions : s.id # d.id}
    /\ UNCHANGED <<notifications, published, sub_seq, notif_seq, event_seq, creating,
                   ev, failed, call, event_types>>

\* session.delete(subscription); commit.  The DELETE is refused by the foreign
\* key of notifications.subscription_id when a notification that the UPDATE
\* did not see references the row; the transaction is then rolled back.
delete_subscription_commit(d) ==
    /\ d \in deleting
    /\ deleting' = deleting \ {d}
    /\ IF \E n \in notifications : n.subscription_id = d.id /\ n.id \notin d.nulled
       THEN UNCHANGED <<subscriptions, notifications>>
       ELSE /\ subscriptions' = {s \in subscriptions : s.id # d.id}
            /\ notifications' =
                   {IF n.id \in d.nulled THEN [n EXCEPT !.subscription_id = NoId]
                    ELSE n : n \in notifications}
    /\ UNCHANGED <<published, sub_seq, notif_seq, event_seq, creating, ev, failed, call, event_types>>

\* ------------------------------------------------------------ notifications
\* Mutant: the inherited argument is not passed on to the row.
create_notification_DropsInherited(id, user_id, event_type, object_path, payload, subscription_id, inherited) ==
    [id |-> id, user_id |-> user_id, type |-> event_type, is_read |-> FALSE,
     severity |-> get_severity_for_event_type(event_type),
     object_path |-> object_path, subscription_id |-> subscription_id,
     inherited |-> FALSE,
     extra_data |-> [object_path |-> object_path,
                     subscription_path |-> subscription_id,
                     payload |-> payload]]

\* NotificationService.create_notification: the row handed to
\* NotificationRepository.create.
create_notification(id, user_id, event_type, object_path, payload, subscription_id, inherited) ==
    [id |-> id, user_id |-> user_id, type |-> event_type, is_read |-> FALSE,
     severity |-> get_severity_for_event_type(event_type),
     object_path |-> object_path, subscription_id |-> subscription_id,
     inherited |-> inherited,
     extra_data |-> [object_path |-> object_path,
                     subscription_path |-> subscription_id,
                     payload |-> payload]]

\* NotificationRepository.mark_as_read (get_by_id, then is_read = True).
mark_as_read(notification_id, user_id) ==
    /\ \E n \in notifications : n.id = notification_id /\ n.user_id = user_id
    /\ notifications' =
           {IF n.id = notification_id /\ n.user_id = user_id
            THEN [n EXCEPT !.is_read = TRUE] ELSE n : n \in notifications}
    /\ UNCHANGED <<subscriptions, published, sub_seq, notif_seq, event_seq,
                   creating, deleting, ev, failed, call, event_types>>

\* Mutant: the UPDATE flips the flag of every listed notification of the user.
bulk_mark_as_read_Toggles(notification_ids, user_id) ==
    /\ notification_ids # {}
    /\ notifications' =
           {IF n.id \in notification_ids /\ n.user_id = user_id
            THEN [n EXCEPT !.is_read = ~n.is_read] ELSE n : n \in notifications}
    /\ UNCHANGED <<subscriptions, published, sub_seq, notif_seq, event_seq,
                   creating, deleting, ev, failed, call, event_types>>

\* NotificationService.bulk_mark_as_read: rejects an empty id list, then one
\* UPDATE ... WHERE id IN :ids AND user_id = :user AND is_read = false.
bulk_mark_as_read(notification_ids, user_id) ==
    /\ notification_ids # {}
    /\ notifications' =
           {IF n.id \in notification_ids /\ n.user_id = user_id /\ n.is_read = FALSE
            THEN [n EXCEPT !.is_read = TRUE] ELSE n : n \in notifications}
    /\ UNCHANGED <<subscriptions, published, sub_seq, notif_seq, event_seq,
                   creating, deleting, ev, failed, call, event_types>>

\* ----------------------------------------------------------- process_event
\* Python truthiness of payload.get(...): None and "" are falsy.
TruthyPath(opt) == opt.some /\ opt.val # <<>>
TruthyType(opt) == opt.some /\ opt.val # ""

\* Mutant: `is not None` instead of truthiness, so [] lets nothing through.
FilteredOut_EmptyBlocks(subscription, event_type) ==
    /\ ~subscription.notification_types.isNone
    /\ ~InList(event_type, subscription.notification_types.items)

\* `subscription.notification_types and event_type not in ...`
FilteredOut(subscription, event_type) ==
    /\ ~subscription.notification_types.isNone
    /\ subscription.notification_types.items # <<>>
    /\ ~InList(event_type, subscription.notification_types.items)

\* dict operations on subscribed_users; a dict keeps the order in which its
\* keys were first inserted.
DictHas(d, k) == \E j \in DOMAIN d : d[j].user_id = k
DictSet(d, k, v) ==
    IF DictHas(d, k)
    THEN [j \in DOMAIN d |-> IF d[j].user_id = k
                             THEN [user_id |-> k, subscription |-> v] ELSE d[j]]
    ELSE Append(d, [user_id |-> k, subscription |-> v])

\* Mutant: every row that passes the filter replaces the user's entry.
RECURSIVE FilterAndDeduplicate_LastWins(_, _, _, _)
FilterAndDeduplicate_LastWins(rows, path, event_type, subscribed_users) ==
    IF rows = <<>> THEN subscribed_users
    ELSE LET subscription == Head(rows)
             next ==
                 IF FilteredOut(subscription, event_type) THEN subscribed_users
                 ELSE DictSet(subscribed_users, subscription.user_id, subscription)
         IN  FilterAndDeduplicate_LastWins(Tail(rows), path, event_type, next)

\* Mutant: the per-user choice is made over all rows and the type filter is
\* applied to the chosen rows afterwards.
RECURSIVE FilterAndDeduplicate_FilterLast(_, _, _, _)
FilterAndDeduplicate_FilterLast(rows, path, event_type, subscribed_users) ==
    IF rows = <<>>
    THEN SelectSeq(subscribed_users,
                   LAMBDA w : ~FilteredOut(w.subscription, event_type))
    ELSE LET subscription == Head(rows)
             next ==
                 IF ~DictHas(subscribed_users, subscription.user_id)
                 THEN DictSet(subscribed_users, subscription.user_id, subscription)
                 ELSE IF subscription.path = path
                      THEN DictSet(subscribed_users, subscription.user_id, subscription)
                 ELSE subscribed_users
         IN  FilterAndDeduplicate_FilterLast(Tail(rows), path, event_type, next)

\* EventProcessor._get_subscribed_users: the loop over the returned rows.
RECURSIVE FilterAndDeduplicate(_, _, _, _)
FilterAndDeduplicate(rows, path, event_type, subscribed_users) ==
    IF rows = <<>> THEN subscribed_users
    ELSE LET subscription == Head(rows)
             next ==
                 IF FilteredOut(subscription, event_type) THEN subscribed_users
                 ELSE IF ~DictHas(subscribed_users, subscription.user_id)
                      THEN DictSet(subscribed_users, subscription.user_id, subscription)
                 ELSE IF subscription.path = path
                      THEN DictSet(subscribed_users, subscription.user_id, subscription)
                 ELSE subscribed_users
         IN  FilterAndDeduplicate(Tail(rows), path, event_type, next)

\* Mutant: the first SELECT takes every row whose path the event path starts with.
DirectRows_StartsWith(path) ==
    {s \in subscriptions :
        Len(s.path) <= Len(path) /\ SubSeq(path, 1, Len(s.path)) = s.path}

\* Mutant: the first SELECT also sees the rows of create_subscription
\* requests that have not committed yet.
DirectRows_SeesUncommitted(path) ==
    {s \in subscriptions : s.path = path} \cup
    {NewSubscription(sub_seq + 1, r.user_id, r.path,
                     [path |-> r.path, include_children |-> TRUE,
                      notification_types |-> NoneTypes, settings |-> "none"]) :
        r \in {c \in BagToSet(creating) : c.path = path /\ c.existing = NoId}}

\* get_subscriptions_for_path, first SELECT: path == :path
DirectRows(path) == {s \in subscriptions : s.path = path}

\* Mutant: the second SELECT does not look at include_children.
ParentRows_AnyChildrenFlag(parent_paths) ==
    IF parent_paths = <<>> THEN {}
    ELSE {s \in subscriptions : InList(s.path, parent_paths)}

\* get_subscriptions_for_path, second SELECT:
\* path IN :parent_paths AND include_children = true
ParentRows(parent_paths) ==
    IF parent_paths = <<>> THEN {}
    ELSE {s \in subscriptions : InList(s.path, parent_paths) /\ s.include_children = TRUE}

\* Mutant: the system-level notification is written for a dropped message too.
process_event_invalid_Audited(object_path, event_type) ==
    /\ ev.pc = "idle"
    /\ ~TruthyPath(object_path) \/ ~TruthyType(event_type)
    /\ event_seq' = event_seq + 1
    /\ failed' = failed \cup {event_seq + 1}
    /\ notifications' = notifications \cup
           {create_notification(notif_seq + 1, SYSTEM, "", <<>>,
                                [id |-> event_seq + 1, object_path |-> object_path,
                                 event_type |-> event_type, system_event |-> TRUE],
                                NoId, FALSE)}
    /\ notif_seq' = notif_seq + 1
    /\ UNCHANGED <<subscriptions, published, sub_seq, creating, deleting, ev, call, event_types>>

\* A message whose payload lacks object_path or event_type: logged, dropped.
process_event_invalid(object_path, event_type) ==
    /\ ev.pc = "idle"
    /\ ~TruthyPath(object_path) \/ ~TruthyType(event_type)
    /\ event_seq' = event_seq + 1
    /\ failed' = failed \cup {event_seq + 1}
    /\ UNCHANGED <<subscriptions, notifications, published, sub_seq,
                   notif_seq, creating, deleting, ev, call, event_types>>

\* process_event from the decode to the end of the first SELECT.
process_event_receive(object_path, event_type) ==
    /\ ev.pc = "idle"
    /\ TruthyPath(object_path) /\ TruthyType(event_type)
    /\ event_seq' = event_seq + 1
    /\ LET normalized_path == NormalizePath(object_path.val)
       IN  \E direct_subs \in Orders(DirectRows(normalized_path)) :
             ev' = [Idle EXCEPT
                      !.pc = "parents",
                      !.id = event_seq + 1,
                      !.normalized_path = normalized_path,
                      !.event_type = event_type.val,
                      !.payload = [id |-> event_seq + 1,
                                   object_path |-> object_path,
                                   event_type |-> event_type,
                                   system_event |-> FALSE],
                      !.parent_paths = _get_parent_paths(normalized_path),
                      !.subscriptions = direct_subs]
    /\ UNCHANGED <<subscriptions, notifications, published, sub_seq,
                   notif_seq, creating, deleting, failed, call, event_types>>

\* Mutant: the loop over the winners is left after its first round.
AfterWinner_SkipsRest(e) == [e EXCEPT !.pc = "system", !.notification = <<>>]

\* Where process_event goes after the winner at index i.
AfterWinner(e) ==
    IF e.i < Len(e.subscribed_users)
    THEN [e EXCEPT !.pc = "create", !.i = e.i + 1, !.notification = <<>>]
    ELSE [e EXCEPT !.pc = "system", !.notification = <<>>]

\* Mutant: the outer try starts with the database session.
Handler_OuterFromSession(line) ==
    IF line \in 58..72 THEN "user"
    ELSE IF line \in 78..83 THEN "system"
    ELSE IF line \in 43..85 THEN "outer"
    ELSE "none"

\* Mutant: the per-user try ends before the publish.
Handler_PublishUnguarded(line) ==
    IF line \in 58..65 THEN "user"
    ELSE IF line \in 78..83 THEN "system"
    ELSE IF line \in 29..85 THEN "outer"
    ELSE "none"

\* The except clause that catches an exception raised at a line of
\* process_event: the per-user try (57-74), the try around the system
\* notification (77-85), the outer try (28-88); every clause is
\* `except Exception`.
Handler(line) ==
    IF line \in 58..72 THEN "user"
    ELSE IF line \in 78..83 THEN "system"
    ELSE IF line \in 29..85 THEN "outer"
    ELSE "none"

\* Where process_event is after an exception raised at `line` in state e:
\* the per-user clause logs and goes on with the next winner, the other two
\* log and fall to the end of the function; an exception no clause catches
\* leaves process_event.
Caught(line, e) ==
    IF Handler(line) = "user" THEN AfterWinner(e)
    ELSE IF Handler(line) \in {"system", "outer"} THEN Idle
    ELSE [e EXCEPT !.pc = "raised"]

\* The second SELECT, then the filter/deduplicate loop.
process_event_match ==
    /\ ev.pc = "parents"
    /\ \E parent_subs \in Orders(ParentRows(ev.parent_paths)) :
         LET rows == ev.subscriptions \o parent_subs     \* direct_subs + parent_subs
             subscribed_users ==
                 FilterAndDeduplicate(rows, ev.normalized_path, ev.event_type, <<>>)
         IN  ev' = AfterWinner([ev EXCEPT !.subscriptions = rows,
                                          !.subscribed_users = subscribed_users,
                                          !.i = 0])
    /\ UNCHANGED <<subscriptions, notifications, published, sub_seq,
                   notif_seq, event_seq, creating, deleting, failed, call, event_types>>

\* Mutant: the notification is added to the session and published; the
\* commit is left for later.
process_event_create_WithoutCommit ==
    /\ ev.pc = "create"
    /\ LET user_id == ev.subscribed_users[ev.i].user_id
           subscription == ev.subscribed_users[ev.i].subscription
           notification ==
               create_notification(notif_seq + 1, user_id, ev.event_type,
                                   ev.normalized_path, ev.payload, subscription.id,
                                   subscription.path # ev.normalized_path)
       IN  /\ notif_seq' = notif_seq + 1
           /\ ev' = [ev EXCEPT !.pc = "publish", !.notification = <<notification>>]
    /\ UNCHANGED <<subscriptions, notifications, published, sub_seq, event_seq,
                   creating, deleting, failed, call, event_types>>

\* Loop body, first await: create_notification for the current winner.  The
\* INSERT is refused by the foreign key when the subscription row is gone;
\* the exception is caught by the per-user handler.  The failed commit rolls
\* the session back, which expires every instance the session holds
\* (whatever expire_on_commit says): from then on reading subscription.id
\* needs a reload, which an AsyncSession cannot do from plain attribute
\* access (MissingGreenlet), so the argument list of the next
\* create_notification call raises inside the same try and is caught too.
process_event_create ==
    /\ ev.pc = "create"
    /\ LET user_id == ev.subscribed_users[ev.i].user_id
           subscription == ev.subscribed_users[ev.i].subscription
           notification ==
               create_notification(notif_seq + 1, user_id, ev.event_type,
                                   ev.normalized_path, ev.payload, subscription.id,
                                   subscription.path # ev.normalized_path)
       IN  IF ev.expired
           THEN /\ ev' = Caught(63, [ev EXCEPT !.rejected = @ \cup {user_id}])
                /\ UNCHANGED <<notifications, notif_seq>>
           ELSE IF \E s \in subscriptions : s.id = subscription.id
           THEN /\ notifications' = notifications \cup {notification}
                /\ notif_seq' = notif_seq + 1
                /\ ev' = [ev EXCEPT !.pc = "publish", !.notification = <<notification>>]
           ELSE /\ ev' = Caught(58, [ev EXCEPT !.rejected = @ \cup {user_id},
                                                !.write_failed = @ \cup {user_id},
                                                !.expired = TRUE])
                /\ UNCHANGED <<notifications, notif_seq>>
    /\ UNCHANGED <<subscriptions, published, sub_seq, event_seq, creating, deleting,
                   failed, call, event_types>>

\* Loop body, second await: publish notification.to_dict() on the user's channel.
process_event_publish ==
    /\ ev.pc = "publish"
    /\ published' = Append(published,
           [subject |-> <<"notification", "user", ev.subscribed_users[ev.i].user_id>>,
            data |-> ev.notification[1]])
    /\ ev' = AfterWinner(ev)
    /\ UNCHANGED <<subscriptions, notifications, sub_seq, notif_seq, event_seq,
                   creating, deleting, failed, call, event_types>>

\* Mutant: the system-level notification is written only when somebody matched.
process_event_system_OnlyIfMatched ==
    /\ ev.pc = "system"
    /\ IF ev.subscribed_users = <<>>
       THEN UNCHANGED <<notifications, notif_seq>>
       ELSE /\ notifications' = notifications \cup
                   {create_notification(notif_seq + 1, SYSTEM, ev.event_type,
                                        ev.normalized_path,
                                        [ev.payload EXCEPT !.system_event = TRUE],
                                        NoId, FALSE)}
            /\ notif_seq' = notif_seq + 1
    /\ ev' = Idle
    /\ UNCHANGED <<subscriptions, published, sub_seq, event_seq, creating, deleting,
                   failed, call, event_types>>

\* Mutant: the system-level notification is published as well.
process_event_system_Published ==
    /\ ev.pc = "system"
    /\ LET notification ==
               create_notification(notif_seq + 1, SYSTEM, ev.event_type,
                                   ev.normalized_path,
                                   [ev.payload EXCEPT !.system_event = TRUE],
                                   NoId, FALSE)
       IN  /\ notifications' = notifications \cup {notification}
           /\ published' = Append(published,
                   [subject |-> <<"notification", "user", SYSTEM>>,
                    data |-> notification])
    /\ notif_seq' = notif_seq + 1
    /\ ev' = Idle
    /\ UNCHANGED <<subscriptions, sub_seq, event_seq, creating, deleting, failed, call, event_types>>

\* Mutant: the system-level notification replaces the earlier ones.
process_event_system_KeepsLatest ==
    /\ ev.pc = "system"
    /\ notifications' = {n \in notifications : n.user_id # SYSTEM} \cup
           {create_notification(notif_seq + 1, SYSTEM, ev.event_type,
                                ev.normalized_path,
                                [ev.payload EXCEPT !.system_event = TRUE],
                                NoId, FALSE)}
    /\ notif_seq' = notif_seq + 1
    /\ ev' = Idle
    /\ UNCHANGED <<subscriptions, published, sub_seq, event_seq, creating, deleting,
                   failed, call, event_types>>

\* The system-level notification; process_event then returns.
process_event_system ==
    /\ ev.pc = "system"
    /\ notifications' = notifications \cup
           {create_notification(notif_seq + 1, SYSTEM, ev.event_type,
                                ev.normalized_path,
                                [ev.payload EXCEPT !.system_event = TRUE],
                                NoId, FALSE)}
    /\ notif_seq' = notif_seq + 1
    /\ ev' = Idle
    /\ UNCHANGED <<subscriptions, published, sub_seq, event_seq, creating, deleting,
                   failed, call, event_types>>

\* ------------------------------------------------------------ specification
\* The service: the REST handlers and the NATS callback, interleaved at their
\* awaits.  nats-py runs the callback of one subscription for one message at
\* a time, so at most one process_event call is in progress.
Next ==
    \/ /\ Inflight < MaxInflight
       /\ \E u \in Users, p \in SubPathInputs : create_subscription_lookup(u, p)
    \/ \E r \in BagToSet(creating), d \in SubscriptionCreate : create_subscription_commit(r, d)
    \/ /\ Inflight < MaxInflight
       /\ \E id \in 1..sub_seq, u \in Users : delete_subscription_update(id, u)
    \/ \E d \in deleting : delete_subscription_commit(d)
    \/ \E id \in 1..notif_seq, u \in Users : mark_as_read(id, u)
    \/ \E ids \in SUBSET (1..notif_seq), u \in Users : bulk_mark_as_read(ids, u)
    \/ /\ event_seq < MaxEvents
       /\ \E e \in EventInputs : process_event_invalid(e.object_path, e.event_type)
    \/ /\ event_seq < MaxEvents
       /\ \E e \in EventInputs : process_event_receive(e.object_path, e.event_type)
    \/ process_event_match
    \/ process_event_create
    \/ process_event_publish
    \/ process_event_system

Spec == Init /\ [][Next]_vars

\* The subscription endpoints alone, with several requests in flight.
NextRace ==
    \/ /\ Inflight < MaxRacing
       /\ \E u \in Users, p \in SubPathInputs : create_subscription_lookup(u, p)
    \/ \E r \in BagToSet(creating), d \in SubscriptionCreate : create_subscription_commit(r, d)
    \/ /\ Inflight < MaxRacing
       /\ \E id \in 1..sub_seq, u \in Users : delete_subscription_update(id, u)
    \/ \E d \in deleting : delete_subscription_commit(d)

SpecRace == Init /\ [][NextRace]_vars

\* ----------------------------------------------------------------- failures
\* nc.publish raises (line 69): the notification is already committed.
process_event_publish_fails ==
    /\ ev.pc = "publish"
    /\ ev' = Caught(69, [ev EXCEPT !.unpushed = @ \cup {ev.subscribed_users[ev.i].user_id}])
    /\ UNCHANGED <<subscriptions, notifications, published, sub_seq, notif_seq,
                   event_seq, creating, deleting, failed, call, event_types>>

\* The commit of a subscriber's notification raises (line 58, inside
\* NotificationRepository.create): nothing is written, the session rolls back
\* and expires its instances as after a refused insert.
process_event_create_fails ==
    /\ ev.pc = "create"
    /\ ~ev.expired
    /\ LET user_id == ev.subscribed_users[ev.i].user_id
       IN  ev' = Caught(58, [ev EXCEPT !.rejected = @ \cup {user_id},
                                      !.write_failed = @ \cup {user_id},
                                      !.expired = TRUE])
    /\ UNCHANGED <<subscriptions, notifications, published, sub_seq, notif_seq,
                   event_seq, creating, deleting, failed, call, event_types>>

\* The commit of the system-level notification raises (line 78).
process_event_system_fails ==
    /\ ev.pc = "system"
    /\ ev' = Caught(78, ev)
    /\ UNCHANGED <<subscriptions, notifications, published, sub_seq, notif_seq,
                   event_seq, creating, deleting, failed, call, event_types>>

\* A SELECT of get_subscriptions_for_path raises (inside the call at line 51).
process_event_read_fails ==
    /\ ev.pc = "parents"
    /\ ev' = Caught(51, ev)
    /\ failed' = failed \cup {ev.id}
    /\ UNCHANGED <<subscriptions, notifications, published, sub_seq, notif_seq,
                   event_seq, creating, deleting, call, event_types>>

\* json.loads raises on the message body (line 29).
process_event_undecodable ==
    /\ ev.pc = "idle"
    /\ event_seq' = event_seq + 1
    /\ ev' = Caught(29, [Idle EXCEPT !.id = event_seq + 1])
    /\ failed' = failed \cup {event_seq + 1}
    /\ UNCHANGED <<subscriptions, notifications, published, sub_seq, notif_seq,
                   creating, deleting, call, event_types>>

\* object_path is a truthy value that is no string (a number, a list):
\* object_path.startswith raises AttributeError (line 41).
process_event_bad_path(event_type) ==
    /\ ev.pc = "idle"
    /\ TruthyType(event_type)
    /\ event_seq' = event_seq + 1
    /\ ev' = Caught(41, [Idle EXCEPT !.id = event_seq + 1,
                                     !.event_type = event_type.val])
    /\ failed' = failed \cup {event_seq + 1}
    /\ UNCHANGED <<subscriptions, notifications, published, sub_seq, notif_seq,
                   creating, deleting, call, event_types>>

\* Event processing in which the write or the publish for a subscriber may
\* fail; the system-level write and the reads do not.
NextUserFaults ==
    \/ /\ Inflight < MaxInflight
       /\ \E u \in Users, p \in SubPathInputs : create_subscription_lookup(u, p)
    \/ \E r \in BagToSet(creating), d \in SubscriptionCreate : create_subscription_commit(r, d)
    \/ /\ event_seq < MaxEvents
       /\ \E e \in EventInputs : process_event_receive(e.object_path, e.event_type)
    \/ process_event_match
    \/ process_event_create
    \/ process_event_create_fails
    \/ process_event_publish
    \/ process_event_publish_fails
    \/ process_event_system

SpecUserFaults == Init /\ [][NextUserFaults]_vars

\* The messages sent while failures are injected.
FaultEventInputs ==
    { Event(Some(P_ab), Some("created")),
      Event(Some(P_abc), Some("updated")),
      Event(NonePath, Some("created")) }

\* Event processing with every failure process_event may meet.
NextFaults ==
    \/ /\ Inflight < MaxInflight
       /\ \E u \in Users, p \in SubPathInputs : create_subscription_lookup(u, p)
    \/ \E r \in BagToSet(creating), d \in SubscriptionCreate : create_subscription_commit(r, d)
    \/ /\ event_seq < MaxFaultEvents
       /\ \E e \in FaultEventInputs : process_event_invalid(e.object_path, e.event_type)
    \/ /\ event_seq < MaxFaultEvents
       /\ \E e \in FaultEventInputs : process_event_receive(e.object_path, e.event_type)
    \/ /\ event_seq < MaxFaultEvents
       /\ process_event_undecodable
    \/ /\ event_seq < MaxFaultEvents
       /\ \E e \in FaultEventInputs : process_event_bad_path(e.event_type)
    \/ process_event_match
    \/ process_event_read_fails
    \/ process_event_create
    \/ process_event_create_fails
    \/ process_event_publish
    \/ process_event_publish_fails
    \/ process_event_system
    \/ process_event_system_fails

SpecFaults == Init /\ [][NextFaults]_vars

\* ----------------------------------------------------------------- matching
\* The matching of one event against a store that does not change meanwhile.
\* The store holds what one or two create_subscription calls, run one after
\* the other, have inserted.
MatchSubPaths == {P_root, P_a, P_ab, P_a_trail}

MatchBodies ==
    {Body(p, c, t, "none") :
        p \in MatchSubPaths, c \in BOOLEAN, t \in {NoneTypes, ListOf(<<"updated">>)}}

MatchRows(id) ==
    {NewSubscription(id, u, NormalizePath(d.path), d) : u \in Users, d \in MatchBodies}

MatchStores ==
    {{}} \cup {{r} : r \in MatchRows(1)}
         \cup UNION {{{r1, r2} : r2 \in {r \in MatchRows(2) :
                                           r.user_id # r1.user_id \/ r.path # r1.path}} :
                     r1 \in MatchRows(1)}

MatchEventInputs ==
    {Event(Some(p), Some(t)) :
        p \in {P_root, P_a, P_ab, P_abc, P_ab_trail, P_ab_rel, P_ax, P_a_x},
        t \in {"created"}}

InitMatch ==
    /\ subscriptions \in MatchStores
    /\ sub_seq = Cardinality(subscriptions)
    /\ notifications = {}
    /\ published = <<>>
    /\ notif_seq = 0
    /\ event_seq = 0
    /\ creating = EmptyBag
    /\ deleting = {}
    /\ ev = Idle
    /\ failed = {}
    /\ call = NoCall
    /\ event_types = SeededEventTypes

NextMatch ==
    \/ /\ event_seq < MaxEvents
       /\ \E e \in MatchEventInputs : process_event_receive(e.object_path, e.event_type)
    \/ process_event_match
    \/ process_event_create
    \/ process_event_publish
    \/ process_event_system

SpecMatch == InitMatch /\ [][NextMatch]_vars

\* ------------------------------------------------------------- termination
\* One message at a time against a store that does not change meanwhile,
\* with every failure process_event may meet.
NextLive ==
    \/ /\ event_seq < MaxEvents
       /\ \E e \in FaultEventInputs : process_event_invalid(e.object_path, e.event_type)
    \/ /\ event_seq < MaxEvents
       /\ \E e \in FaultEventInputs : process_event_receive(e.object_path, e.event_type)
    \/ /\ event_seq < MaxEvents
       /\ process_event_undecodable
    \/ /\ event_seq < MaxEvents
       /\ \E e \in FaultEventInputs : process_event_bad_path(e.event_type)
    \/ process_event_match
    \/ process_event_read_fails
    \/ process_event_create
    \/ process_event_create_fails
    \/ process_event_publish
    \/ process_event_publish_fails
    \/ process_event_system
    \/ process_event_system_fails

\* The awaits of process_event: the event loop resumes the coroutine when the
\* awaited SELECT, commit or publish returns or raises.
ProcessStep ==
    \/ process_event_match
    \/ process_event_read_fails
    \/ process_event_create
    \/ process_event_create_fails
    \/ process_event_publish
    \/ process_event_publish_fails
    \/ process_event_system
    \/ process_event_system_fails

\* Every awaited call returns or fails: no await is pending for ever.
SpecLive == InitMatch /\ [][NextLive]_vars /\ WF_vars(ProcessStep)

\* ------------------------------------------------------ check_subscription
\* get_by_user_and_path gives the rows of its SELECT; scalar_one_or_none()
\* answers None for no row, the row for one row, and raises
\* MultipleResultsFound for several.
\* The loop over parent_paths of check_subscription: the lookups made until
\* the break, as the sequence of their row sets.
RECURSIVE ParentLookups(_, _)
ParentLookups(user_id, parent_paths) ==
    IF parent_paths = <<>> THEN <<>>
    ELSE LET rows == get_by_user_and_path(user_id, Head(parent_paths))
         IN  IF Cardinality(rows) = 1 /\ (\E r \in rows : r.include_children)
             THEN <<rows>>
             ELSE <<rows>> \o ParentLookups(user_id, Tail(parent_paths))

\* Mutant: the loop takes the first parent with a subscription, whatever its
\* include_children.
ParentSub_AnyFlag(lookups) ==
    IF \E k \in DOMAIN lookups : lookups[k] # {}
    THEN lookups[CHOOSE k \in DOMAIN lookups :
                    lookups[k] # {} /\ \A j \in 1..(k - 1) : lookups[j] = {}]
    ELSE {}

\* parent_sub after the loop: the row of the last lookup when it broke the
\* loop, else None (the empty set).
ParentSub(lookups) ==
    IF lookups # <<>> /\ (\E r \in lookups[Len(lookups)] : r.include_children)
    THEN lookups[Len(lookups)]
    ELSE {}

\* SubscriptionService.check_subscription.  Its _get_parent_paths is a copy
\* of the one of EventProcessor.  An Optional row is a set of at most one row.
check_subscription(path, user_id) ==
    LET normalized_path == IF StartsWithSlash(path) THEN path ELSE <<"/">> \o path
        parent_paths == _get_parent_paths(normalized_path)
        direct == get_by_user_and_path(user_id, normalized_path)
        lookups == ParentLookups(user_id, parent_paths)
        parent_sub == ParentSub(lookups)
    IN  IF Cardinality(direct) > 1 \/ \E k \in DOMAIN lookups : Cardinality(lookups[k]) > 1
        THEN [status |-> 500]
        ELSE [status |-> 200,
              path |-> normalized_path,
              is_subscribed |-> direct # {} \/ parent_sub # {},
              direct_subscription |-> direct,
              inherited_subscription |-> parent_sub]

\* GET /subscriptions/check
check_subscription_request(path, user_id) ==
    /\ call' = [op |-> "check_subscription", arg |-> <<path, user_id>>,
                result |-> check_subscription(path, user_id)]
    /\ UNCHANGED <<subscriptions, notifications, published, sub_seq, notif_seq,
                   event_seq, creating, deleting, ev, failed, event_types>>

\* The paths asked about are those of the events.
CheckPaths == {e.object_path.val : e \in MatchEventInputs}

NextCheck ==
    \/ /\ event_seq < MaxEvents
       /\ \E e \in MatchEventInputs : process_event_receive(e.object_path, e.event_type)
    \/ process_event_match
    \/ process_event_create
    \/ process_event_publish
    \/ process_event_system
    \/ \E path \in CheckPaths, u \in Users : check_subscription_request(path, u)

SpecCheck == InitMatch /\ [][NextCheck]_vars

\* The stores of SpecMatch and the stores two racing create_subscription
\* calls of one user for one path leave behind: two rows with that user and
\* path (the table has no unique constraint on them).
AgreeStores ==
    MatchStores \cup
    UNION {{{r1, r2} : r2 \in {r \in MatchRows(2) :
                                  r.user_id = r1.user_id /\ r.path = r1.path}} :
           r1 \in MatchRows(1)}

InitAgree ==
    /\ subscriptions \in AgreeStores
    /\ sub_seq = Cardinality(subscriptions)
    /\ notifications = {}
    /\ published = <<>>
    /\ notif_seq = 0
    /\ event_seq = 0
    /\ creating = EmptyBag
    /\ deleting = {}
    /\ ev = Idle
    /\ failed = {}
    /\ call = NoCall
    /\ event_types = SeededEventTypes

SpecAgree == InitAgree /\ [][NextCheck]_vars

\* ------------------------------------ events between subscription changes
\* Several events, with subscriptions created, updated and deleted before,
\* between and during them.
FreshBodies ==
    { Body(P_a, TRUE, NoneTypes, "none"),
      Body(P_a, FALSE, NoneTypes, "none"),
      Body(P_ab, TRUE, ListOf(<<"updated">>), "none") }

FreshEventInputs ==
    {Event(Some(P_ab), Some("created")), Event(Some(P_ab), Some("updated"))}

NextFresh ==
    \/ /\ Inflight < MaxInflight
       /\ \E u \in Users, d \in FreshBodies : create_subscription_lookup(u, d.path)
    \/ \E r \in BagToSet(creating), d \in FreshBodies : create_subscription_commit(r, d)
    \/ /\ Inflight < MaxInflight
       /\ \E id \in 1..sub_seq, u \in Users : delete_subscription_update(id, u)
    \/ \E d \in deleting : delete_subscription_commit(d)
    \/ /\ event_seq < MaxFreshEvents
       /\ \E e \in FreshEventInputs : process_event_receive(e.object_path, e.event_type)
    \/ process_event_match
    \/ process_event_create
    \/ process_event_publish
    \/ process_event_system

SpecFresh == Init /\ [][NextFresh]_vars

\* ------------------------------------------------ the endpoints' answers
\* The notification and subscription endpoints with what they answer, kept
\* in `call`, next to one event that fills the notifications table.

\* Mutant: the SELECT of get_by_id does not look at the user.
get_by_id_notification_AnyUser(notification_id, user_id) ==
    {n \in notifications : n.id = notification_id}

\* NotificationRepository.get_by_id
get_by_id_notification(notification_id, user_id) ==
    {n \in notifications : n.id = notification_id /\ n.user_id = user_id}

\* POST /notifications/{id}/read: NotificationRepository.mark_as_read and
\* the 404 of the endpoint when it returns False.
mark_as_read_request(notification_id, user_id) ==
    LET found == get_by_id_notification(notification_id, user_id)
    IN  /\ notifications' =
               {IF n \in found THEN [n EXCEPT !.is_read = TRUE] ELSE n :
                   n \in notifications}
        /\ call' = [op |-> "mark_as_read", arg |-> <<notification_id, user_id>>,
                    result |-> [success |-> found # {},
                                status |-> IF found # {} THEN 200 ELSE 404]]
        /\ UNCHANGED <<subscriptions, published, sub_seq, notif_seq, event_seq,
                       creating, deleting, ev, failed, event_types>>

\* DELETE /subscriptions/{id} when get_by_id finds no row of the user:
\* delete_subscription returns False, the endpoint answers 404.
delete_subscription_not_found(subscription_id, user_id) ==
    /\ get_by_id_subscription(subscription_id, user_id) = {}
    /\ call' = [op |-> "delete_subscription", arg |-> <<subscription_id, user_id>>,
                result |-> [success |-> FALSE, status |-> 404]]
    /\ UNCHANGED <<subscriptions, notifications, published, sub_seq, notif_seq,
                   event_seq, creating, deleting, ev, failed, event_types>>

\* Mutant: the UPDATE of bulk_mark_as_read also matches rows already read.
BulkMatched_AlsoRead(notification_ids, user_id) ==
    {n \in notifications : n.id \in notification_ids /\ n.user_id = user_id}

\* NotificationRepository.bulk_mark_as_read: the rows the UPDATE matches;
\* result.rowcount is their number.
BulkMatched(notification_ids, user_id) ==
    {n \in notifications :
        n.id \in notification_ids /\ n.user_id = user_id /\ n.is_read = FALSE}

\* POST /notifications/bulk-read: the ValueError for an empty list (HTTP
\* 400), else the UPDATE and the BulkMarkAsReadResponse.
bulk_mark_as_read_request(notification_ids, user_id) ==
    LET matched == BulkMatched(notification_ids, user_id)
    IN  /\ IF notification_ids = {}
           THEN /\ UNCHANGED notifications
                /\ call' = [op |-> "bulk_mark_as_read",
                            arg |-> <<notification_ids, user_id>>,
                            result |-> [status |-> "error", updated_count |-> 0]]
           ELSE /\ notifications' =
                       {IF n \in matched THEN [n EXCEPT !.is_read = TRUE] ELSE n :
                           n \in notifications}
                /\ call' = [op |-> "bulk_mark_as_read",
                            arg |-> <<notification_ids, user_id>>,
                            result |-> [status |-> "success",
                                        updated_count |-> Cardinality(matched)]]
        /\ UNCHANGED <<subscriptions, published, sub_seq, notif_seq, event_seq,
                       creating, deleting, ev, failed, event_types>>

\* Mutant: the SELECT of get_by_user_id has no user filter.
get_by_user_id_Everyone(user_id) == notifications

\* NotificationRepository.get_by_user_id without optional filters.
get_by_user_id(user_id) == {n \in notifications : n.user_id = user_id}

\* GET /notifications
get_notifications_request(user_id) ==
    /\ call' = [op |-> "get_notifications", arg |-> <<user_id>>,
                result |-> get_by_user_id(user_id)]
    /\ UNCHANGED <<subscriptions, notifications, published, sub_seq, notif_seq,
                   event_seq, creating, deleting, ev, failed, event_types>>

\* The store the requests work on: alice follows "/a" and what is below it,
\* bob follows "/a/b".
ApiStore ==
    { NewSubscription(1, "alice", P_a, Body(P_a, TRUE, NoneTypes, "none")),
      NewSubscription(2, "bob", P_ab, Body(P_ab, FALSE, NoneTypes, "none")) }

ApiEventInputs == {Event(Some(P_ab), Some("created"))}

InitApi ==
    /\ subscriptions = ApiStore
    /\ sub_seq = Cardinality(ApiStore)
    /\ notifications = {}
    /\ published = <<>>
    /\ notif_seq = 0
    /\ event_seq = 0
    /\ creating = EmptyBag
    /\ deleting = {}
    /\ ev = Idle
    /\ failed = {}
    /\ call = NoCall
    /\ event_types = SeededEventTypes

NextApi ==
    \/ /\ event_seq < MaxEvents
       /\ \E e \in ApiEventInputs : process_event_receive(e.object_path, e.event_type)
    \/ process_event_match
    \/ process_event_create
    \/ process_event_publish
    \/ process_event_system
    \/ \E id \in 1..(notif_seq + 1), u \in Users : mark_as_read_request(id, u)
    \/ \E ids \in SUBSET (1..(notif_seq + 1)), u \in Users :
           bulk_mark_as_read_request(ids, u)
    \/ \E u \in Users : get_notifications_request(u)
    \/ \E id \in 1..(sub_seq + 1), u \in Users : delete_subscription_not_found(id, u)
    \/ /\ Inflight < MaxInflight
       /\ \E id \in 1..sub_seq, u \in Users : delete_subscription_update(id, u)
    \/ \E d \in deleting : delete_subscription_commit(d)

SpecApi == InitApi /\ [][NextApi]_vars

\* ------------------------------------------------- events and severities
\* One event against several contents of the event_types table: the seeded
\* rows, no rows, and rows with another or with no default severity.
SeverityTables ==
    { SeededEventTypes,
      {},
      {EventType("created", NoSeverity), EventType("deleted", Some("critical"))},
      {EventType("created", Some("error"))} }

SeverityEventInputs ==
    {Event(Some(p), Some(t)) : p \in {P_a, P_ab, P_abc},
                               t \in {"created", "deleted", "archived"}}

InitSeverity ==
    /\ subscriptions = ApiStore
    /\ sub_seq = Cardinality(ApiStore)
    /\ notifications = {}
    /\ published = <<>>
    /\ notif_seq = 0
    /\ event_seq = 0
    /\ creating = EmptyBag
    /\ deleting = {}
    /\ ev = Idle
    /\ failed = {}
    /\ call = NoCall
    /\ event_types \in SeverityTables

NextSeverity ==
    \/ /\ event_seq < MaxEvents
       /\ \E e \in SeverityEventInputs : process_event_receive(e.object_path, e.event_type)
    \/ process_event_match
    \/ process_event_create
    \/ process_event_publish
    \/ process_event_system

SpecSeverity == InitSeverity /\ [][NextSeverity]_vars

\* --------------------------------------------------------------- titles
\* Strings are sequences of one-character strings.  The characters the
\* title generation is tried on: lower and upper case letters, a digit, the
\* two separators it replaces, and the slash.
Lowers == {"a", "b", "c", "d", "e", "m", "n", "o", "p", "r", "t", "u", "w", "s"}
Uppers == {"A", "B", "C", "D", "E", "M", "N", "O", "P", "R", "T", "U", "W", "S"}

\* str.upper() and str.lower() on one character.
ToUpper(c) ==
    CASE c = "a" -> "A" [] c = "b" -> "B" [] c = "c" -> "C" [] c = "d" -> "D"
      [] c = "e" -> "E" [] c = "m" -> "M" [] c = "n" -> "N" [] c = "o" -> "O"
      [] c = "p" -> "P" [] c = "r" -> "R" [] c = "t" -> "T" [] c = "u" -> "U"
      [] c = "w" -> "W" [] c = "s" -> "S" [] OTHER -> c

ToLower(c) ==
    CASE c = "A" -> "a" [] c = "B" -> "b" [] c = "C" -> "c" [] c = "D" -> "d"
      [] c = "E" -> "e" [] c = "M" -> "m" [] c = "N" -> "n" [] c = "O" -> "o"
      [] c = "P" -> "p" [] c = "R" -> "r" [] c = "T" -> "t" [] c = "U" -> "u"
      [] c = "W" -> "w" [] c = "S" -> "s" [] OTHER -> c

\* str.strip('/')
RECURSIVE LStrip(_)
LStrip(s) == IF s # <<>> /\ Head(s) = "/" THEN LStrip(Tail(s)) ELSE s
RECURSIVE RStrip(_)
RStrip(s) ==
    IF s # <<>> /\ s[Len(s)] = "/" THEN RStrip(SubSeq(s, 1, Len(s) - 1)) ELSE s
Strip(s) == RStrip(LStrip(s))

\* str.replace(old, new) for one-character old and new.
Replace(s, old, new) == [k \in DOMAIN s |-> IF s[k] = old THEN new ELSE s[k]]

\* Mutant: title() that leaves the letters after the first of a word alone.
RECURSIVE TitleFrom_KeepsCase(_, _)
TitleFrom_KeepsCase(s, previous_is_cased) ==
    IF s = <<>> THEN <<>>
    ELSE LET c == Head(s)
         IN  IF c \in Lowers \cup Uppers
             THEN <<IF previous_is_cased THEN c ELSE ToUpper(c)>>
                      \o TitleFrom_KeepsCase(Tail(s), TRUE)
             ELSE <<c>> \o TitleFrom_KeepsCase(Tail(s), FALSE)

\* str.title(): a cased character is put in upper case after an uncased one
\* (or at the start) and in lower case after a cased one.
RECURSIVE TitleFrom(_, _)
TitleFrom(s, previous_is_cased) ==
    IF s = <<>> THEN <<>>
    ELSE LET c == Head(s)
         IN  IF c \in Lowers \cup Uppers
             THEN <<IF previous_is_cased THEN ToLower(c) ELSE ToUpper(c)>>
                      \o TitleFrom(Tail(s), TRUE)
             ELSE <<c>> \o TitleFrom(Tail(s), FALSE)

Title(s) == TitleFrom(s, FALSE)

\* The string literals of the title generation, as character sequences.
Str(s) ==
    CASE s = "created" -> <<"c", "r", "e", "a", "t", "e", "d">>
      [] s = "updated" -> <<"u", "p", "d", "a", "t", "e", "d">>
      [] s = "deleted" -> <<"d", "e", "l", "e", "t", "e", "d">>
      [] s = "commented" -> <<"c", "o", "m", "m", "e", "n", "t", "e", "d">>
      [] s = "New " -> <<"N", "e", "w", " ">>
      [] s = " created" -> <<" ", "c", "r", "e", "a", "t", "e", "d">>
      [] s = " was updated" -> <<" ", "w", "a", "s", " ", "u", "p", "d", "a", "t", "e", "d">>
      [] s = " was deleted" -> <<" ", "w", "a", "s", " ", "d", "e", "l", "e", "t", "e", "d">>
      [] s = "New comment on " -> <<"N", "e", "w", " ", "c", "o", "m", "m", "e", "n", "t", " ", "o", "n", " ">>
      [] s = " on " -> <<" ", "o", "n", " ">>
      [] s = "Someone" -> <<"S", "o", "m", "e", "o", "n", "e">>
      [] s = " created a new " -> <<" ", "c", "r", "e", "a", "t", "e", "d", " ", "a", " ", "n", "e", "w", " ">>
      [] s = " updated " -> <<" ", "u", "p", "d", "a", "t", "e", "d", " ">>
      [] s = " deleted " -> <<" ", "d", "e", "l", "e", "t", "e", "d", " ">>
      [] s = " commented on " -> <<" ", "c", "o", "m", "m", "e", "n", "t", "e", "d", " ", "o", "n", " ">>
      [] s = ": \"" -> <<":", " ", "\"">>
      [] s = "\"" -> <<"\"">>
      [] s = " performed " -> <<" ", "p", "e", "r", "f", "o", "r", "m", "e", "d", " ">>

\* Mutant: the last branch does not title-case the event type.
_generate_title_PlainType(path, event_type) ==
    LET parts == Split(Strip(path))
        object_name == parts[Len(parts)]
        object_display == Title(Replace(Replace(object_name, "-", " "), "_", " "))
    IN  IF event_type = Str("created") THEN Str("New ") \o object_display \o Str(" created")
        ELSE IF event_type = Str("updated") THEN object_display \o Str(" was updated")
        ELSE IF event_type = Str("deleted") THEN object_display \o Str(" was deleted")
        ELSE IF event_type = Str("commented") THEN Str("New comment on ") \o object_display
        ELSE Replace(event_type, "_", " ") \o Str(" on ") \o object_display

\* NotificationService._generate_title (split never returns an empty list,
\* so the "item" default is never taken).
_generate_title(path, event_type) ==
    LET parts == Split(Strip(path))
        object_name == parts[Len(parts)]
        object_display == Title(Replace(Replace(object_name, "-", " "), "_", " "))
    IN  IF event_type = Str("created") THEN Str("New ") \o object_display \o Str(" created")
        ELSE IF event_type = Str("updated") THEN object_display \o Str(" was updated")
        ELSE IF event_type = Str("deleted") THEN object_display \o Str(" was deleted")
        ELSE IF event_type = Str("commented") THEN Str("New comment on ") \o object_display
        ELSE Title(Replace(event_type, "_", " ")) \o Str(" on ") \o object_display

\* dict.get(key, default) on the "data" of a payload: a key is present
\* (some) with its value or absent.
Get(field, default) == IF field.some THEN field.val ELSE default

\* NotificationService._generate_content; payload is the "data" dictionary
\* of the event's payload (an absent "data" is the dictionary without keys).
_generate_content(path, event_type, payload) ==
    LET parts == Split(Strip(path))
        object_name == parts[Len(parts)]
        object_display == Title(Replace(Replace(object_name, "-", " "), "_", " "))
        user_name == Get(payload.user_name, Str("Someone"))
    IN  IF event_type = Str("created")
        THEN user_name \o Str(" created a new ") \o object_display
        ELSE IF event_type = Str("updated")
        THEN user_name \o Str(" updated ") \o object_display
        ELSE IF event_type = Str("deleted")
        THEN user_name \o Str(" deleted ") \o object_display
        ELSE IF event_type = Str("commented")
        THEN user_name \o Str(" commented on ") \o object_display \o Str(": \"")
                 \o Get(payload.comment, <<>>) \o Str("\"")
        ELSE user_name \o Str(" performed ") \o Replace(event_type, "_", " ")
                 \o Str(" on ") \o object_display

\* The "data" dictionaries the content generation is called with.
ContentPayloads ==
    { [user_name |-> u, comment |-> c] :
        u \in {[some |-> FALSE, val |-> <<>>], [some |-> TRUE, val |-> <<"A", "l">>]},
        c \in {[some |-> FALSE, val |-> <<>>], [some |-> TRUE, val |-> <<"o", "k">>]} }

\* The paths and event types the title generation is called with: every
\* string of at most MaxTitleLen characters over TitleChars, and the four
\* fixed types next to other ones.
TitleChars == {"/", "a", "B", "-", "_", "1"}
TitlePaths == UNION {[1..k -> TitleChars] : k \in 0..MaxTitleLen}
TitleTypes ==
    { Str("created"), Str("updated"), Str("deleted"), Str("commented"),
      <<"a", "_", "b">>, <<"C", "r", "e", "a", "t", "e", "d">>, <<"a", "B">> }

InitTitle ==
    /\ subscriptions = {}
    /\ sub_seq = 0
    /\ notifications = {}
    /\ published = <<>>
    /\ notif_seq = 0
    /\ event_seq = 0
    /\ creating = EmptyBag
    /\ deleting = {}
    /\ ev = Idle
    /\ failed = {}
    /\ call \in {[op |-> "none", arg |-> <<p, t>>, result |-> <<>>] :
                     p \in TitlePaths, t \in TitleTypes}
    /\ event_types = SeededEventTypes

\* A call of NotificationService._generate_title(path, event_type).
call_generate_title ==
    /\ call.op = "none"
    /\ call' = [op |-> "_generate_title", arg |-> call.arg,
                result |-> _generate_title(call.arg[1], call.arg[2])]
    /\ UNCHANGED <<subscriptions, notifications, published, sub_seq, notif_seq,
                   event_seq, creating, deleting, ev, failed, event_types>>

\* A call of NotificationService._generate_content(path, event_type, payload).
call_generate_content ==
    /\ call.op = "none"
    /\ \E payload \in ContentPayloads :
           call' = [op |-> "_generate_content", arg |-> call.arg \o <<payload>>,
                    result |-> _generate_content(call.arg[1], call.arg[2], payload)]
    /\ UNCHANGED <<subscriptions, notifications, published, sub_seq, notif_seq,
                   event_seq, creating, deleting, ev, failed, event_types>>

NextTitle ==
    \/ call_generate_title
    \/ call_generate_content

SpecTitle == InitTitle /\ [][NextTitle]_vars

\* ------------------------------------------- process_event of main.py
\* main.py is a second, self-contained entry point (uvicorn "main:app") with
\* its own process_event.  It collects the notifications in the session and
\* commits once, after the system notification; ev.notification holds the
\* rows added to the session so far.

\* main.py process_event: `for sub in direct_subs: subscribed_users[...] = sub`
RECURSIVE MainDirect(_, _)
MainDirect(direct_subs, subscribed_users) ==
    IF direct_subs = <<>> THEN subscribed_users
    ELSE MainDirect(Tail(direct_subs),
                    DictSet(subscribed_users, Head(direct_subs).user_id,
                            Head(direct_subs)))

\* main.py process_event: `for sub in parent_subs: if sub.user_id not in ...`
RECURSIVE MainParents(_, _)
MainParents(parent_subs, subscribed_users) ==
    IF parent_subs = <<>> THEN subscribed_users
    ELSE MainParents(Tail(parent_subs),
                     IF ~DictHas(subscribed_users, Head(parent_subs).user_id)
                     THEN DictSet(subscribed_users, Head(parent_subs).user_id,
                                  Head(parent_subs))
                     ELSE subscribed_users)

\* The row built in the loop of main.py process_event.
MainNotification(id, user_id, event_type, object_path, payload, subscription) ==
    [id |-> id, user_id |-> user_id, type |-> event_type, is_read |-> FALSE,
     severity |-> get_severity(event_type),
     object_path |-> object_path, subscription_id |-> subscription.id,
     inherited |-> (subscription.path # object_path),
     extra_data |-> [object_path |-> object_path,
                     subscription_path |-> subscription.path,
                     payload |-> payload]]

\* The next key of subscribed_users, or the end of the loop.
MainAfterUser(e) ==
    IF e.i < Len(e.subscribed_users)
    THEN [e EXCEPT !.pc = "create", !.i = e.i + 1]
    ELSE [e EXCEPT !.pc = "system"]

\* A message whose payload lacks object_path or event_type: logged, dropped.
main_process_event_invalid(object_path, event_type) ==
    /\ ev.pc = "idle"
    /\ ~TruthyPath(object_path) \/ ~TruthyType(event_type)
    /\ event_seq' = event_seq + 1
    /\ failed' = failed \cup {event_seq + 1}
    /\ UNCHANGED <<subscriptions, notifications, published, sub_seq,
                   notif_seq, creating, deleting, ev, call, event_types>>

\* main.py process_event from the decode to the end of the first SELECT.
main_process_event_receive(object_path, event_type) ==
    /\ ev.pc = "idle"
    /\ TruthyPath(object_path) /\ TruthyType(event_type)
    /\ event_seq' = event_seq + 1
    /\ LET normalized_path == NormalizePath(object_path.val)
       IN  \E direct_subs \in Orders(DirectRows(normalized_path)) :
             ev' = [Idle EXCEPT
                      !.pc = "parents",
                      !.id = event_seq + 1,
                      !.normalized_path = normalized_path,
                      !.event_type = event_type.val,
                      !.payload = [id |-> event_seq + 1,
                                   object_path |-> object_path,
                                   event_type |-> event_type,
                                   system_event |-> FALSE],
                      !.parent_paths = get_parent_paths(normalized_path),
                      !.subscriptions = direct_subs]
    /\ UNCHANGED <<subscriptions, notifications, published, sub_seq,
                   notif_seq, creating, deleting, failed, call, event_types>>

\* The second SELECT and the two loops that fill subscribed_users: the type
\* filter is not looked at here.
main_process_event_match ==
    /\ ev.pc = "parents"
    /\ \E parent_subs \in Orders(ParentRows(ev.parent_paths)) :
         LET subscribed_users ==
                 MainParents(parent_subs, MainDirect(ev.subscriptions, <<>>))
         IN  ev' = MainAfterUser([ev EXCEPT
                                    !.subscriptions = ev.subscriptions \o parent_subs,
                                    !.subscribed_users = subscribed_users,
                                    !.i = 0])
    /\ UNCHANGED <<subscriptions, notifications, published, sub_seq,
                   notif_seq, event_seq, creating, deleting, failed, call, event_types>>

\* One turn of the loop over subscribed_users: `continue` when the chosen
\* subscription filters the type out, else db.add and publish.
main_process_event_user ==
    /\ ev.pc = "create"
    /\ LET user_id == ev.subscribed_users[ev.i].user_id
           subscription == ev.subscribed_users[ev.i].subscription
           notification ==
               MainNotification(notif_seq + 1, user_id, ev.event_type,
                                ev.normalized_path, ev.payload, subscription)
       IN  IF FilteredOut(subscription, ev.event_type)
           THEN /\ ev' = MainAfterUser(ev)
                /\ UNCHANGED <<published, notif_seq>>
           ELSE /\ notif_seq' = notif_seq + 1
                /\ published' = Append(published,
                       [subject |-> <<"notification", "user", user_id>>,
                        data |-> notification])
                /\ ev' = MainAfterUser(
                              [ev EXCEPT !.notification = Append(@, notification)])
    /\ UNCHANGED <<subscriptions, notifications, sub_seq, event_seq, creating,
                   deleting, failed, call, event_types>>

\* The system notification and the one commit of the session.
main_process_event_commit ==
    /\ ev.pc = "system"
    /\ notifications' = notifications \cup Range(ev.notification) \cup
           {[create_notification(notif_seq + 1, SYSTEM, ev.event_type,
                                 ev.normalized_path,
                                 [ev.payload EXCEPT !.system_event = TRUE],
                                 NoId, FALSE)
               EXCEPT !.severity = get_severity(ev.event_type)]}
    /\ notif_seq' = notif_seq + 1
    /\ ev' = Idle
    /\ UNCHANGED <<subscriptions, published, sub_seq, event_seq, creating, deleting,
                   failed, call, event_types>>

MainEventInputs == MatchEventInputs \cup {Event(NonePath, Some("created"))}

NextMain ==
    \/ /\ event_seq < MaxEvents
       /\ \E e \in MainEventInputs : main_process_event_invalid(e.object_path, e.event_type)
    \/ /\ event_seq < MaxEvents
       /\ \E e \in MainEventInputs : main_process_event_receive(e.object_path, e.event_type)
    \/ main_process_event_match
    \/ main_process_event_user
    \/ main_process_event_commit

SpecMain == InitMatch /\ [][NextMain]_vars

\* ---------------------------------------------- the ancestor enumeration
\* The two copies of the ancestor enumeration called on their own, on every
\* string of at most MaxPathLen characters over PathChars.
PathChars == {"/", "a", "b", "c"}
PathInputs == UNION {[1..k -> PathChars] : k \in 0..MaxPathLen}

InitPaths ==
    /\ subscriptions = {}
    /\ sub_seq = 0
    /\ notifications = {}
    /\ published = <<>>
    /\ notif_seq = 0
    /\ event_seq = 0
    /\ creating = EmptyBag
    /\ deleting = {}
    /\ ev = Idle
    /\ failed = {}
    /\ call \in {[op |-> "none", arg |-> p, result |-> <<>>] : p \in PathInputs}
    /\ event_types = SeededEventTypes

\* A call of EventProcessor._get_parent_paths(path).
call_get_parent_paths_method ==
    /\ call.op = "none"
    /\ call' = [op |-> "_get_parent_paths", arg |-> call.arg,
                result |-> _get_parent_paths(call.arg)]
    /\ UNCHANGED <<subscriptions, notifications, published, sub_seq, notif_seq,
                   event_seq, creating, deleting, ev, failed, event_types>>

\* A call of main.get_parent_paths(path).
call_get_parent_paths_function ==
    /\ call.op = "none"
    /\ call' = [op |-> "get_parent_paths", arg |-> call.arg,
                result |-> get_parent_paths(call.arg)]
    /\ UNCHANGED <<subscriptions, notifications, published, sub_seq, notif_seq,
                   event_seq, creating, deleting, ev, failed, event_types>>

\* The normalization expression of process_event and create_subscription
\* applied to a path.
call_normalize ==
    /\ call.op = "none"
    /\ call' = [op |-> "normalize", arg |-> call.arg,
                result |-> NormalizePath(call.arg)]
    /\ UNCHANGED <<subscriptions, notifications, published, sub_seq, notif_seq,
                   event_seq, creating, deleting, ev, failed, event_types>>

NextPaths ==
    \/ call_get_parent_paths_method
    \/ call_get_parent_paths_function
    \/ call_normalize

SpecPaths == InitPaths /\ [][NextPaths]_vars

\* -------------------------------------------------------- is_child_path
\* str.startswith(prefix)
StartsWith(s, prefix) ==
    Len(prefix) <= Len(s) /\ SubSeq(s, 1, Len(prefix)) = prefix

\* Mutant: the two paths are compared without the closing slash.
is_child_path_NoClosingSlash(parent_path, child_path) ==
    LET norm_parent == IF StartsWithSlash(parent_path) THEN parent_path
                       ELSE <<"/">> \o parent_path
        norm_child == IF StartsWithSlash(child_path) THEN child_path
                      ELSE <<"/">> \o child_path
    IN  StartsWith(norm_child, norm_parent) /\ norm_child # norm_parent

\* main.py is_child_path
is_child_path(parent_path, child_path) ==
    LET p1 == IF StartsWithSlash(parent_path) THEN parent_path
              ELSE <<"/">> \o parent_path
        norm_parent == IF EndsWithSlash(p1) THEN p1 ELSE p1 \o <<"/">>
        c1 == IF StartsWithSlash(child_path) THEN child_path
              ELSE <<"/">> \o child_path
        norm_child == IF ~EndsWithSlash(c1) /\ c1 # <<"/">> THEN c1 \o <<"/">> ELSE c1
    IN  StartsWith(norm_child, norm_parent) /\ norm_child # norm_parent

\* The strings of at most n characters the function is called with.
ChildInputs(n) == UNION {[1..k -> {"/", "a", "b"}] : k \in 0..n}

InitChild ==
    /\ subscriptions = {}
    /\ sub_seq = 0
    /\ notifications = {}
    /\ published = <<>>
    /\ notif_seq = 0
    /\ event_seq = 0
    /\ creating = EmptyBag
    /\ deleting = {}
    /\ ev = Idle
    /\ failed = {}
    /\ call \in {[op |-> "none", arg |-> <<a, p>>, result |-> <<>>] :
                     a \in ChildInputs(MaxParentLen), p \in ChildInputs(MaxChildLen)}
    /\ event_types = SeededEventTypes

\* A call of is_child_path(parent_path, child_path).
call_is_child_path ==
    /\ call.op = "none"
    /\ call' = [op |-> "is_child_path", arg |-> call.arg,
                result |-> is_child_path(call.arg[1], call.arg[2])]
    /\ UNCHANGED <<subscriptions, notifications, published, sub_seq, notif_seq,
                   event_seq, creating, deleting, ev, failed, event_types>>

SpecChild == InitChild /\ [][call_is_child_path]_vars

\* ------------------------------------------------- vocabulary of the claims
\* The non-empty segments of a path: "/a/b/" and "/a/b" both give <<a, b>>.
RECURSIVE NonEmpty(_)
NonEmpty(parts) ==
    IF parts = <<>> THEN <<>>
    ELSE IF Head(parts) = <<>> THEN NonEmpty(Tail(parts))
    ELSE <<Head(parts)>> \o NonEmpty(Tail(parts))

Segments(p) == NonEmpty(Split(p))

\* a is a strict segment-wise ancestor of p.
IsStrictAncestor(a, p) ==
    /\ Len(Segments(a)) < Len(Segments(p))
    /\ SubSeq(Segments(p), 1, Len(Segments(a))) = Segments(a)

SamePath(a, p) == Segments(a) = Segments(p)

\* The subscription lets events of this type through.
Allows(s, event_type) ==
    \/ s.notification_types.isNone
    \/ s.notification_types.items = <<>>
    \/ \E k \in DOMAIN s.notification_types.items :
          s.notification_types.items[k] = event_type

EventOf(n) == n.extra_data.payload.id
IsAudit(n) == n.extra_data.payload.system_event
CausedBy(n) == n.extra_data.subscription_path

\* The notifications persisted for event e, and those of them for user u.
EventNotifs(e) == {n \in notifications : EventOf(n) = e}
UserNotifs(e, u) == {n \in EventNotifs(e) : n.user_id = u /\ ~IsAudit(n)}
AuditNotifs(e) == {n \in EventNotifs(e) : IsAudit(n)}

\* The messages published for event e, as positions of `published`.
EventMessages(e) == {k \in DOMAIN published : EventOf(published[k].data) = e}

InProgress(e) == ev.pc # "idle" /\ ev.id = e
Completed(e) == e \in 1..event_seq /\ e \notin failed /\ ~InProgress(e)

\* The matching step of the event in progress is over.
Resolved == ev.pc \in {"create", "publish", "system"}
Candidates == Range(ev.subscriptions)
Winners == Range(ev.subscribed_users)

\* The users with at least one candidate that lets the event's type through.
MatchedUsers == {s.user_id : s \in {c \in Candidates : Allows(c, ev.event_type)}}

MatchStep == ev.pc = "parents" /\ ev'.pc # "parents"
CreateStep == ev.pc = "create" /\ ev' # ev

\* ----------------------------------------------------------------------- C1
\* C1 (as claimed): a user who owns an include_children subscription on a
\* strict segment-wise ancestor of the event path, letting the event type
\* through, and who has no such subscription on the event path itself, is
\* matched through one of these ancestor subscriptions, and (the subscription
\* still being there) a notification with inherited = TRUE referring to it is
\* persisted for that user.
QualifyingAncestors(u) ==
    {s \in subscriptions :
        /\ s.user_id = u
        /\ s.include_children = TRUE
        /\ IsStrictAncestor(s.path, ev.normalized_path)
        /\ Allows(s, ev.event_type)}

HasDirect(u) ==
    \E s \in subscriptions \cup Range(ev.subscriptions) :
        /\ s.user_id = u
        /\ SamePath(s.path, ev.normalized_path)
        /\ Allows(s, ev.event_type)

C1_InheritedMatching ==
    [][ /\ MatchStep =>
             \A u \in Users :
                 (QualifyingAncestors(u) # {} /\ ~HasDirect(u)) =>
                     \E w \in Range(ev'.subscribed_users) :
                         /\ w.user_id = u
                         /\ w.subscription \in QualifyingAncestors(u)
        /\ CreateStep =>
             LET w == ev.subscribed_users[ev.i]
             IN  (w.subscription \in QualifyingAncestors(w.user_id)) =>
                     \E n \in notifications' \ notifications :
                         /\ n.user_id = w.user_id
                         /\ n.inherited = TRUE
                         /\ n.subscription_id = w.subscription.id
      ]_vars

\* ----------------------------------------------------------------------- C2
\* C2: when the candidates of one user contain a subscription exactly on the
\* event path and an include_children subscription on another (ancestor)
\* path, both letting the type through, the user has exactly one entry in
\* subscribed_users, it is a subscription on the event path, and the
\* notification created from it has inherited = FALSE.
HasDirectAndInherited(u) ==
    /\ \E s \in Candidates :
          s.user_id = u /\ s.path = ev.normalized_path /\ Allows(s, ev.event_type)
    /\ \E s \in Candidates :
          /\ s.user_id = u /\ s.path # ev.normalized_path
          /\ s.include_children = TRUE /\ Allows(s, ev.event_type)

C2_DirectOverInherited ==
    Resolved =>
        \A u \in Users :
            HasDirectAndInherited(u) =>
                /\ Cardinality({j \in DOMAIN ev.subscribed_users :
                                    ev.subscribed_users[j].user_id = u}) = 1
                /\ \A w \in Winners :
                       w.user_id = u => w.subscription.path = ev.normalized_path
                /\ (ev.pc = "publish" /\ ev.subscribed_users[ev.i].user_id = u) =>
                       ev.notification[1].inherited = FALSE

C2_Witness ==
    /\ ev.pc = "publish"
    /\ HasDirectAndInherited(ev.subscribed_users[ev.i].user_id)
    /\ ev.notification[1].inherited = FALSE
    /\ ev.notification[1] \in notifications

\* ----------------------------------------------------------------------- C3
\* C3: no notification of an event is caused by a subscription whose
\* notification_types is a non-empty list without the event's type, and a
\* candidate whose notification_types is null or [] always gets its user
\* matched.
C3_TypeFilter ==
    Resolved =>
        /\ \A w \in Winners :
               ~(/\ ~w.subscription.notification_types.isNone
                 /\ w.subscription.notification_types.items # <<>>
                 /\ \A k \in DOMAIN w.subscription.notification_types.items :
                        w.subscription.notification_types.items[k] # ev.event_type)
        /\ \A n \in EventNotifs(ev.id) :
               \E w \in Winners :
                   w.user_id = n.user_id /\ w.subscription.id = CausedBy(n)
        /\ \A c \in Candidates :
               (c.notification_types.isNone \/ c.notification_types.items = <<>>) =>
                   \E w \in Winners : w.user_id = c.user_id

C3_Witness ==
    /\ ev.pc = "system"
    /\ \E c \in Candidates :
          /\ ~Allows(c, ev.event_type)
          /\ UserNotifs(ev.id, c.user_id) = {}
    /\ \E c \in Candidates :
          /\ c.notification_types = ListOf(<<>>)
          /\ UserNotifs(ev.id, c.user_id) # {}

C5_ExactlyOnePerMatchedUser ==
    ev.pc = "system" =>
        \A u \in Users :
            Cardinality(UserNotifs(ev.id, u)) = IF u \in MatchedUsers THEN 1 ELSE 0

\* What does hold: a user never has two notifications of one event, and
\* when the per-user loop is over exactly the matched users whose write did
\* not fail have one.  The first write to fail is one whose winning
\* subscription was deleted after it was read; every write after it fails.
C5_NeverTwoAndOneUnlessFailed ==
    /\ \A e \in 1..event_seq, u \in Users : Cardinality(UserNotifs(e, u)) <= 1
    /\ \A n \in notifications : IsAudit(n) \/ n.user_id \in Users
    /\ Resolved =>
           /\ ev.rejected \subseteq MatchedUsers
           /\ ev.expired = (ev.rejected # {})
           /\ \A j \in DOMAIN ev.subscribed_users :
                  LET w == ev.subscribed_users[j]
                  IN  (/\ w.user_id \in ev.rejected
                       /\ \E s \in subscriptions : s.id = w.subscription.id) =>
                          \E k \in 1..(j - 1) :
                              ev.subscribed_users[k].user_id \in ev.rejected
    /\ ev.pc = "system" =>
           \A u \in Users :
               Cardinality(UserNotifs(ev.id, u)) =
                   IF u \in MatchedUsers \ ev.rejected THEN 1 ELSE 0

C5_Witness ==
    /\ ev.pc = "system"
    /\ \E u \in Users :
          /\ Cardinality({c \in Candidates :
                            c.user_id = u /\ Allows(c, ev.event_type)}) >= 2
          /\ Cardinality(UserNotifs(ev.id, u)) = 1

\* ----------------------------------------------------------------------- C6
\* C6: for an event processed without a refused insert, once the per-user
\* loop is over there is exactly one message per matched user, on the channel
\* notification.user.<user> and carrying that user's notification of the
\* event, and as many notifications as matched users; when processing has
\* returned the event has one notification more than messages (the audit
\* copy), and no message carries an audit copy.
Carries(msg, n) ==
    /\ msg.data.id = n.id
    /\ msg.data.user_id = n.user_id
    /\ msg.data.type = n.type
    /\ msg.data.object_path = n.object_path
    /\ msg.data.inherited = n.inherited
    /\ msg.data.extra_data = n.extra_data

C6_PushPerMatchedUser ==
    /\ (ev.pc = "system" /\ ev.rejected = {}) =>
           /\ Cardinality(EventNotifs(ev.id)) = Cardinality(MatchedUsers)
           /\ Cardinality(EventMessages(ev.id)) = Cardinality(MatchedUsers)
           /\ \A u \in MatchedUsers :
                  \E n \in UserNotifs(ev.id, u) :
                      \E k \in EventMessages(ev.id) :
                          /\ published[k].subject = <<"notification", "user", u>>
                          /\ Carries(published[k], n)
    /\ \A k \in DOMAIN published :
           /\ ~IsAudit(published[k].data)
           /\ published[k].subject[3] # SYSTEM
           /\ published[k].subject = <<"notification", "user", published[k].data.user_id>>
    /\ \A e \in 1..event_seq :
           Completed(e) =>
               Cardinality(EventNotifs(e)) = Cardinality(EventMessages(e)) + 1

C6_Witness ==
    \E e \in 1..event_seq :
        /\ Completed(e)
        /\ Cardinality(EventNotifs(e)) = 3
        /\ Cardinality(EventMessages(e)) = 2

\* ----------------------------------------------------------------------- C7
\* C7 (as claimed): the subscription store never holds two subscriptions of
\* one user on one path.
C7_UniquePerUserAndPath ==
    \A s1, s2 \in subscriptions :
        (s1.user_id = s2.user_id /\ s1.path = s2.path) => s1 = s2

\* ----------------------------------------------------------------------- C8
\* C8: a create_subscription call whose lookup found a subscription of the
\* user on the path commits without changing the number of rows or any id;
\* it changes nothing but include_children, notification_types and settings
\* of the row it found, which take the values of one request body for that
\* path; a second call with that body finds the same row and leaves the
\* store as it is.
UpdateCommitStep(r) ==
    /\ BagIn(r, creating)
    /\ r.existing # NoId
    /\ creating' = creating (-) SetToBag({r})

C8_UpsertInPlace ==
    [][ \A r \in BagToSet(creating) :
            UpdateCommitStep(r) =>
                /\ Cardinality(subscriptions') = Cardinality(subscriptions)
                /\ {s.id : s \in subscriptions'} = {s.id : s \in subscriptions}
                /\ \A s \in subscriptions : s.id # r.existing => s \in subscriptions'
                /\ \A s \in subscriptions :
                       s.id = r.existing =>
                           \E d \in SubscriptionCreate, t \in subscriptions' :
                               /\ NormalizePath(d.path) = r.path
                               /\ t.id = s.id
                               /\ t.user_id = s.user_id
                               /\ t.path = s.path
                               /\ t.created_at = s.created_at
                               /\ t.include_children = d.include_children
                               /\ t.notification_types = d.notification_types
                               /\ t.settings = d.settings
                               /\ UpdateExisting(subscriptions', t.id, d) = subscriptions'
      ]_vars

\* A row that process_event read has since been changed in place.
C8_Witness ==
    \E c \in Candidates, s \in subscriptions :
        /\ c.id = s.id
        /\ c.user_id = s.user_id /\ c.path = s.path
        /\ c.settings # s.settings
        /\ c.include_children # s.include_children
        /\ c.notification_types # s.notification_types
        /\ Cardinality(subscriptions) = 1

\* ----------------------------------------------------------------------- C9
\* C9: a delete_subscription that commits removes exactly the given
\* subscription; every notification is still there, those that referred to it
\* with subscription_id null and nothing else changed, the others untouched.
DeleteCommitStep(d) ==
    /\ d \in deleting
    /\ deleting' = deleting \ {d}
    /\ subscriptions' # subscriptions

C9_DeleteKeepsNotifications ==
    [][ \A d \in deleting :
            DeleteCommitStep(d) =>
                /\ subscriptions' = {s \in subscriptions : s.id # d.id}
                /\ Cardinality(subscriptions') = Cardinality(subscriptions) - 1
                /\ Cardinality(notifications') = Cardinality(notifications)
                /\ \A n \in notifications :
                       IF n.subscription_id = d.id
                       THEN [n EXCEPT !.subscription_id = NoId] \in notifications'
                       ELSE n \in notifications'
      ]_vars

\* A notification lost its reference to a deleted subscription while another
\* notification of the same event still refers to its own subscription.
C9_Witness ==
    \E n, m \in notifications :
        /\ ~IsAudit(n)
        /\ n.subscription_id = NoId
        /\ CausedBy(n) # NoId
        /\ \A s \in subscriptions : s.id # CausedBy(n)
        /\ ~IsAudit(m)
        /\ m.subscription_id # NoId
        /\ m.subscription_id = CausedBy(m)

\* ---------------------------------------------------------------------- C10
\* C10: a notification is unread when it is inserted, and a read
\* notification is read in every later state.
C10_ReadFlagMonotonic ==
    [][ /\ \A n \in notifications' :
               (\A m \in notifications : m.id # n.id) => n.is_read = FALSE
        /\ \A m \in notifications :
               m.is_read = TRUE =>
                   \E n \in notifications' : n.id = m.id /\ n.is_read = TRUE
      ]_vars

\* A read notification whose subscription was deleted afterwards or before.
C10_Witness ==
    \E n \in notifications :
        /\ n.is_read = TRUE
        /\ n.subscription_id = NoId
        /\ CausedBy(n) # NoId

\* ---------------------------------------------------------------------- C11
\* C11: the step that takes a message whose payload lacks object_path or
\* event_type (missing, null or empty) records it as dropped and changes
\* neither store nor the published messages nor starts any processing; a
\* dropped event never has a notification (no audit copy either) or a message.
C11_MalformedDropped ==
    [][ /\ (failed' # failed) =>
               /\ subscriptions' = subscriptions
               /\ notifications' = notifications
               /\ published' = published
               /\ ev' = ev
               /\ failed' = failed \cup {event_seq'}
        /\ \A e \in failed' :
               /\ \A n \in notifications' : n.extra_data.payload.id # e
               /\ \A k \in DOMAIN published' :
                      published'[k].data.extra_data.payload.id # e
               /\ ~(ev'.pc # "idle" /\ ev'.id = e)
      ]_vars

\* A malformed message was dropped while a subscription was in the store.
C11_Witness ==
    /\ failed # {}
    /\ subscriptions # {}
    /\ \A e \in failed : EventNotifs(e) = {} /\ EventMessages(e) = {}
    /\ ev = Idle

\* ---------------------------------------------------------------------- C12
\* C12: with no write of the event failed, a user whose publish failed has
\* the notification persisted and no message (the publish is not repeated);
\* when the per-user loop is over every matched user has one notification and
\* every matched user whose publish did not fail has one message carrying
\* it; and every event whose processing has returned has its audit copy.
UserMessages(e, u) ==
    {k \in EventMessages(e) : published[k].subject = <<"notification", "user", u>>}

C13_PersistFailureIsolated ==
    /\ ev.pc = "system" =>
           \A w \in Winners :
               w.user_id \notin ev.write_failed =>
                   /\ Cardinality(UserNotifs(ev.id, w.user_id)) = 1
                   /\ w.user_id \notin ev.unpushed =>
                          Cardinality(UserMessages(ev.id, w.user_id)) = 1
    /\ \A e \in 1..event_seq :
           Completed(e) => Cardinality(AuditNotifs(e)) = 1

\* What does hold: the audit copy is written after a failed write, and the
\* winners before the first failed write keep their notifications; every
\* winner after it gets none.
C13_OnlyEarlierWinnersAndAuditSurvive ==
    /\ ev.pc = "system" =>
           \A j \in DOMAIN ev.subscribed_users :
               Cardinality(UserNotifs(ev.id, ev.subscribed_users[j].user_id)) =
                   IF \E k \in 1..j :
                          ev.subscribed_users[k].user_id \in ev.write_failed
                   THEN 0 ELSE 1
    /\ \A e \in 1..event_seq :
           Completed(e) => Cardinality(AuditNotifs(e)) = 1

\* ---------------------------------------------------------------------- C14
\* C14: whatever fails (the decoding of the body, a missing field, a path
\* that is no string, a read of the subscription store, a notification
\* write, a publish), no exception leaves process_event; when it has
\* returned it holds nothing of the event, so the next message starts from
\* the same state as the first; and an event dropped before its first write
\* has left neither a notification nor a message.
C14_NeverPropagates ==
    /\ ev.pc \in {"idle", "parents", "create", "publish", "system"}
    /\ ev.pc = "idle" => ev = Idle
    /\ \A e \in failed :
           /\ e \in 1..event_seq
           /\ ~InProgress(e)
           /\ EventNotifs(e) = {}
           /\ EventMessages(e) = {}

\* A dropped event is followed by one that is processed to the end, with a
\* notification pushed to a subscriber.
C14_Witness ==
    \E e1, e2 \in 1..event_seq :
        /\ e1 < e2
        /\ e1 \in failed
        /\ Completed(e2)
        /\ Cardinality(AuditNotifs(e2)) = 1
        /\ \E u \in Users :
               UserNotifs(e2, u) # {} /\ UserMessages(e2, u) # {}

\* ---------------------------------------------------------------------- C15
\* C15: a notification written for a subscriber refers to the winning
\* subscription and has inherited = (that subscription's path differs from
\* the notification's object path); the system-level notification has no
\* subscription and inherited = FALSE; the flag, the object path and the
\* recorded cause never change afterwards, so for every notification whose
\* causing subscription is still stored the equivalence holds in every state.
IsNew(n) == \A m \in notifications : m.id # n.id

C15_InheritedIffOtherPath ==
    [][ /\ \A n \in notifications' :
               IsNew(n) =>
                   IF ev.pc = "create"
                   THEN LET w == ev.subscribed_users[ev.i]
                        IN  /\ n.user_id = w.user_id
                            /\ n.object_path = ev.normalized_path
                            /\ n.subscription_id = w.subscription.id
                            /\ CausedBy(n) = w.subscription.id
                            /\ n.inherited = (w.subscription.path # n.object_path)
                   ELSE /\ n.user_id = SYSTEM
                        /\ n.subscription_id = NoId
                        /\ CausedBy(n) = NoId
                        /\ n.inherited = FALSE
        /\ \A n \in notifications :
               \E m \in notifications' :
                   /\ m.id = n.id
                   /\ m.inherited = n.inherited
                   /\ m.object_path = n.object_path
                   /\ CausedBy(m) = CausedBy(n)
        /\ \A n \in notifications :
               /\ IsAudit(n) <=> CausedBy(n) = NoId
               /\ IsAudit(n) => n.inherited = FALSE
               /\ \A c \in subscriptions :
                      c.id = CausedBy(n) => n.inherited = (c.path # n.object_path)
      ]_vars

\* One event has left an inherited notification, a direct one and the audit
\* copy.
C15_Witness ==
    \E n, m, a \in notifications :
        /\ EventOf(n) = EventOf(m) /\ EventOf(m) = EventOf(a)
        /\ IsAudit(a) /\ a.inherited = FALSE
        /\ ~IsAudit(n) /\ n.inherited = TRUE
        /\ \E c \in subscriptions : c.id = CausedBy(n) /\ c.path # n.object_path
        /\ ~IsAudit(m) /\ m.inherited = FALSE
        /\ \E c \in subscriptions : c.id = CausedBy(m) /\ c.path = m.object_path

\* ---------------------------------------------------------------------- C16
\* C16: a subscription with include_children = FALSE is a candidate, a
\* winner or the cause of a notification only for an event whose path is its
\* own path, never for one on a strict descendant; and every stored
\* subscription whose path is the event path is a candidate whatever its
\* include_children, and if it lets the type through its user is matched
\* directly (notification with inherited = FALSE).
C16_ExactPathOnlyWithoutChildren ==
    Resolved =>
        /\ \A c \in Candidates \cup {w.subscription : w \in Winners} :
               c.include_children = FALSE =>
                   /\ c.path = ev.normalized_path
                   /\ ~IsStrictAncestor(c.path, ev.normalized_path)
        /\ \A n \in EventNotifs(ev.id), c \in subscriptions :
               (~IsAudit(n) /\ n.subscription_id = c.id
                            /\ c.include_children = FALSE) =>
                   c.path = n.object_path /\ n.inherited = FALSE
        /\ \A s \in subscriptions :
               s.path = ev.normalized_path =>
                   /\ s \in Candidates
                   /\ Allows(s, ev.event_type) =>
                          /\ \E w \in Winners :
                                 /\ w.user_id = s.user_id
                                 /\ w.subscription.path = ev.normalized_path
                          /\ ev.pc = "system" =>
                                 \E n \in UserNotifs(ev.id, s.user_id) :
                                     n.inherited = FALSE

\* alice's subscription without children on the parent path gave nothing,
\* bob's subscription without children on the event path gave a direct
\* notification.
C16_Witness ==
    /\ ev.pc = "system"
    /\ \E s, t \in subscriptions :
          /\ s.include_children = FALSE /\ t.include_children = FALSE
          /\ Allows(s, ev.event_type) /\ Allows(t, ev.event_type)
          /\ IsStrictAncestor(s.path, ev.normalized_path)
          /\ UserNotifs(ev.id, s.user_id) = {}
          /\ t.path = ev.normalized_path
          /\ \E n \in UserNotifs(ev.id, t.user_id) :
                 n.inherited = FALSE /\ n.subscription_id = t.id

\* ---------------------------------------------------------------------- C17
\* C17: a subscription whose path is neither the event path nor a strict
\* segment-wise ancestor of it is never a candidate or a winner for the event
\* and never the cause of one of its notifications, whatever its
\* include_children; a sibling path and a path that is only a string prefix
\* of the event path are such paths.
C17_NoSpuriousMatch ==
    /\ Resolved =>
           \A c \in Candidates \cup {w.subscription : w \in Winners} :
               \/ SamePath(c.path, ev.normalized_path)
               \/ IsStrictAncestor(c.path, ev.normalized_path)
    /\ \A n \in notifications, c \in subscriptions :
           n.subscription_id = c.id =>
               \/ SamePath(c.path, n.object_path)
               \/ IsStrictAncestor(c.path, n.object_path)

\* The event on "/ax" is over: the include_children subscription on "/a",
\* a sibling whose path is a string prefix of the event path, gave its user
\* nothing; only the audit notification was written.
C17_Witness ==
    /\ Completed(1)
    /\ \E a \in AuditNotifs(1) : a.object_path = P_ax
    /\ \E c \in subscriptions :
          /\ c.path = P_a
          /\ c.include_children = TRUE
          /\ c.notification_types.isNone
    /\ EventNotifs(1) = AuditNotifs(1)

\* ---------------------------------------------------------------------- C18
\* C18 (as claimed): an event whose object path ends with "/" is treated as
\* the same path without it: every subscription stored on that path without
\* the slash is a candidate, whatever its include_children, and if it lets
\* the type through its user gets a direct notification; and no persisted
\* notification of the event has an object_path ending with "/".
\* The code refutes it: line 41 of process_event keeps the trailing slash,
\* the direct SELECT compares the strings, and _get_parent_paths starts at
\* the parent of the stripped path.
C18_TrailingSlashSamePath ==
    /\ (Resolved /\ Len(ev.normalized_path) > 1
                 /\ EndsWithSlash(ev.normalized_path)) =>
           \A s \in subscriptions :
               s.path = SubSeq(ev.normalized_path, 1,
                               Len(ev.normalized_path) - 1) =>
                   /\ s \in Candidates
                   /\ Allows(s, ev.event_type) =>
                          /\ \E w \in Winners : w.subscription = s
                          /\ ev.pc = "system" =>
                                 \E n \in UserNotifs(ev.id, s.user_id) :
                                     n.inherited = FALSE
    /\ \A n \in notifications :
           Len(n.object_path) > 1 => ~EndsWithSlash(n.object_path)

\* What the code does with such an event: the subscriptions stored on the
\* path without the slash are no candidates, and every notification of the
\* event carries the path as it came, slash included.
C18_TrailingSlashKept ==
    /\ (Resolved /\ Len(ev.normalized_path) > 1
                 /\ EndsWithSlash(ev.normalized_path)) =>
           \A s \in subscriptions :
               s.path = SubSeq(ev.normalized_path, 1,
                               Len(ev.normalized_path) - 1) =>
                   s \notin Candidates
    /\ \A n \in notifications :
           \/ n.object_path \in {P_root, P_a, P_ab, P_abc, P_ax, P_a_x}
           \/ n.object_path = P_ab_trail

\* ---------------------------------------------------------------------- C19
\* C19: for an event on any path other than the root, whatever its depth,
\* every stored subscription on "/" with include_children = TRUE is a
\* candidate; if it lets the event's type through, its user is a winner and,
\* once the per-user loop is over, holds a notification of the event.
C19_RootMatchesEveryPath ==
    (Resolved /\ Segments(ev.normalized_path) # <<>>) =>
        \A s \in subscriptions :
            (s.path = P_root /\ s.include_children = TRUE) =>
                /\ s \in Candidates
                /\ Allows(s, ev.event_type) =>
                       /\ \E w \in Winners : w.user_id = s.user_id
                       /\ ev.pc = "system" =>
                              UserNotifs(ev.id, s.user_id) # {}

\* The root subscription caused an inherited notification for the event three
\* levels below it.
C19_Witness ==
    /\ ev.pc = "system"
    /\ ev.normalized_path = P_abc
    /\ \E s \in subscriptions :
          /\ s.path = P_root /\ s.include_children = TRUE
          /\ \E n \in UserNotifs(ev.id, s.user_id) :
                 /\ n.subscription_id = s.id
                 /\ n.inherited = TRUE
                 /\ n.object_path = P_abc

\* ---------------------------------------------------------------------- C20
\* A path made of one or more non-empty segments separated by single
\* slashes, with or without a leading and a trailing slash.
WellFormed(p) ==
    /\ Segments(p) # <<>>
    /\ \A k \in 1..(Len(p) - 1) : ~(p[k] = "/" /\ p[k + 1] = "/")

\* q is the path of these segments, written with a leading slash only.
IsPathOf(q, segs) ==
    /\ Segments(q) = segs
    /\ Len(q) = Len(Join(<< <<>> >> \o segs))
    /\ StartsWithSlash(q)

Returned == call.op \in {"_get_parent_paths", "get_parent_paths"}

\* C20 (as claimed): for a path of n >= 1 segments the ancestor enumeration
\* returns exactly n-1 paths, each a strict ancestor of it, from the immediate
\* parent to the top-level segment; for "/" or the empty path it returns the
\* empty sequence.  Refuted: the enumeration ends with the root "/".
C20_AncestorChain ==
    Returned =>
        LET p == call.arg
            r == call.result
            n == Len(Segments(p))
        IN  /\ p \in {<<>>, P_root} => r = <<>>
            /\ WellFormed(p) =>
                   /\ Len(r) = n - 1
                   /\ \A k \in 1..Len(r) :
                          /\ IsStrictAncestor(r[k], p)
                          /\ k <= n - 1 =>
                                 IsPathOf(r[k], SubSeq(Segments(p), 1, n - k))

\* C20 (amended): for a path of n >= 1 segments separated by single slashes,
\* with or without a leading or trailing slash, the ancestor enumeration
\* returns exactly n paths: the n-1 strict ancestors with at least one
\* segment, from the immediate parent to the top-level segment, and then the
\* root "/"; for "/" or the empty path it returns the empty sequence.
C20_AncestorChainEndsWithRoot ==
    Returned =>
        LET p == call.arg
            r == call.result
            n == Len(Segments(p))
        IN  /\ p \in {<<>>, P_root} => r = <<>>
            /\ WellFormed(p) =>
                   /\ Len(r) = n
                   /\ r[n] = P_root
                   /\ \A k \in 1..(n - 1) :
                          /\ IsStrictAncestor(r[k], p)
                          /\ IsPathOf(r[k], SubSeq(Segments(p), 1, n - k))

\* "/a/b/c" gave "/a/b", "/a" and "/".
C20_Witness ==
    /\ call.op = "_get_parent_paths"
    /\ call.arg = P_abc
    /\ call.result = <<P_ab, P_a, P_root>>

\* ---------------------------------------------------------------------- C21
\* C21: the normalization applied to event paths and to subscription paths
\* is idempotent: normalizing its own result changes nothing.
C21_NormalizeIdempotent ==
    call.op = "normalize" =>
        /\ call.result = NormalizePath(call.arg)
        /\ NormalizePath(call.result) = call.result

\* The relative path "a/b" was normalized to "/a/b".
C21_Witness ==
    /\ call.op = "normalize"
    /\ call.arg = P_ab_rel
    /\ call.result = P_ab

\* ---------------------------------------------------------------------- C22
\* C22 (as claimed): in every reachable state the path of every stored
\* subscription starts with "/" and does not end with "/" unless it is "/".
\* The code refutes it: create_subscription only adds a leading slash, so the
\* path "/a/" is stored as it was passed.
C22_StoredPathNormalForm ==
    \A s \in subscriptions :
        /\ StartsWithSlash(s.path)
        /\ EndsWithSlash(s.path) => s.path = P_root

\* The part of the normal form the code does keep: every stored path starts
\* with "/" and is the code's normalization of itself.
C22_StoredPathStartsWithSlash ==
    \A s \in subscriptions :
        /\ StartsWithSlash(s.path)
        /\ NormalizePath(s.path) = s.path

\* ---------------------------------------------------------------------- C23
\* The stored path is in the normal form of the specification.
NormalForm(p) == StartsWithSlash(p) /\ (EndsWithSlash(p) => p = P_root)

\* C23 (as claimed): once an event has been processed, a user whose
\* subscription on the event path excludes the event's type, and who has an
\* include_children subscription on a strict ancestor (stored in normal form)
\* that lets the type through, holds a notification of the event, and it has
\* inherited = TRUE and is not caused by the subscription on the event path.
\* The process_event of main.py refutes it: it chooses the subscription of
\* each user first and filters the chosen one afterwards.
C23_NotifiedThroughAncestor ==
    \A x \in notifications :
        (IsAudit(x) /\ Completed(EventOf(x))) =>
            \A d, a \in subscriptions :
                ( /\ d.user_id = a.user_id
                  /\ d.path = x.object_path
                  /\ ~Allows(d, x.type)
                  /\ a.include_children = TRUE
                  /\ NormalForm(a.path)
                  /\ IsStrictAncestor(a.path, x.object_path)
                  /\ Allows(a, x.type) ) =>
                    /\ UserNotifs(EventOf(x), a.user_id) # {}
                    /\ \A n \in UserNotifs(EventOf(x), a.user_id) :
                           /\ n.inherited = TRUE
                           /\ n.subscription_id # d.id

\* What EventProcessor._get_subscribed_users does: the type filter is applied
\* before the per-user choice, so such a user has a winner, the winner is a
\* subscription on an ancestor that lets the type through, and the user's
\* notification is caused by it and has inherited = TRUE.
C23_FilterBeforePrecedence ==
    Resolved =>
        \A d, a \in subscriptions :
            ( /\ d.user_id = a.user_id
              /\ d.path = ev.normalized_path
              /\ ~Allows(d, ev.event_type)
              /\ a.include_children = TRUE
              /\ NormalForm(a.path)
              /\ IsStrictAncestor(a.path, ev.normalized_path)
              /\ Allows(a, ev.event_type) ) =>
                /\ d \in Candidates /\ a \in Candidates
                /\ \E w \in Winners :
                       /\ w.user_id = a.user_id
                       /\ w.subscription # d
                       /\ Allows(w.subscription, ev.event_type)
                       /\ IsStrictAncestor(w.subscription.path, ev.normalized_path)
                /\ ev.pc = "system" =>
                       /\ UserNotifs(ev.id, a.user_id) # {}
                       /\ \A n \in UserNotifs(ev.id, a.user_id) :
                              /\ n.inherited = TRUE
                              /\ n.subscription_id # d.id

\* The user's subscription on "/a/b" takes only "updated"; the "created"
\* event on "/a/b" reached them through their subscription on "/a".
C23_Witness ==
    /\ ev.pc = "system"
    /\ ev.normalized_path = P_ab
    /\ \E d, a \in subscriptions :
          /\ d.user_id = a.user_id
          /\ d.path = P_ab /\ ~Allows(d, ev.event_type)
          /\ a.path = P_a /\ a.include_children = TRUE
          /\ \E n \in UserNotifs(ev.id, a.user_id) :
                 n.inherited = TRUE /\ n.subscription_id = a.id

\* ---------------------------------------------------------------------- C24
\* Two candidates of the same kind for an event on path: both on the event
\* path, or both on other paths.
SameKind(c, d, path) == (c.path = path) <=> (d.path = path)

\* C24 (as claimed): when a user has several candidates of the same kind
\* that pass the type filter, the winner is the most recently created of
\* them, whatever the order in which the store returned the rows.
\* The code refutes it: among the inherited candidates of a user the first
\* row returned wins, and the SELECT has no ORDER BY.
C24_MostRecentWins ==
    Resolved =>
        \A w \in Winners, c \in Candidates :
            ( /\ c.user_id = w.user_id
              /\ Allows(c, ev.event_type)
              /\ SameKind(c, w.subscription, ev.normalized_path) ) =>
                c.created_at <= w.subscription.created_at

\* What the code guarantees instead: among the user's candidates of the
\* winning kind that pass the type filter, an inherited winner is the first
\* row in the order returned, and a direct winner is the last one.
C24_FirstReturnedWins ==
    Resolved =>
        \A w \in Winners :
            \E k \in DOMAIN ev.subscriptions :
                /\ ev.subscriptions[k] = w.subscription
                /\ \A j \in DOMAIN ev.subscriptions :
                       LET c == ev.subscriptions[j]
                           rival == /\ c.user_id = w.user_id
                                    /\ Allows(c, ev.event_type)
                                    /\ SameKind(c, w.subscription, ev.normalized_path)
                       IN  IF w.subscription.path = ev.normalized_path
                           THEN j > k => ~rival
                           ELSE j < k => ~rival

\* ---------------------------------------------------------------------- C25
ReceiveStep == ev.pc = "idle" /\ ev'.pc = "parents"

\* C25: every event is matched against the committed store as it is when
\* its queries run: the rows of the first query are exactly the stored rows
\* on the event path, with their current field values; the rows the second
\* query adds are exactly the stored include_children rows on the parent
\* paths; the winners are among these rows; and a notification is only ever
\* inserted for a subscription that is in the store at that moment, so that
\* nothing is produced through a subscription whose delete has committed.
C25_FreshRead ==
    [][ /\ ReceiveStep =>
               Range(ev'.subscriptions) =
                   {s \in subscriptions : s.path = ev'.normalized_path}
        /\ MatchStep =>
               /\ Range(ev'.subscriptions) =
                      Range(ev.subscriptions) \cup
                      {s \in subscriptions :
                          /\ s.include_children = TRUE
                          /\ InList(s.path, ev.parent_paths)}
               /\ Range(ev'.subscribed_users) \subseteq
                      {[user_id |-> c.user_id, subscription |-> c] :
                          c \in {r \in Range(ev'.subscriptions) :
                                    Allows(r, ev.event_type)}}
        /\ \A n \in notifications' :
               (IsNew(n) /\ ~IsAudit(n)) =>
                   /\ \E s \in subscriptions : s.id = CausedBy(n)
                   /\ \E c \in Candidates : c.id = CausedBy(n)
      ]_vars

\* The first event was delivered to a user through a subscription that has
\* been deleted since; the second event, of the same type on the same path,
\* is over and gave that user nothing.
C25_Witness ==
    /\ Completed(1) /\ Completed(2)
    /\ \E n \in notifications :
          /\ EventOf(n) = 1 /\ ~IsAudit(n)
          /\ \A s \in subscriptions : s.id # CausedBy(n)
          /\ UserNotifs(2, n.user_id) = {}
          /\ \E x \in AuditNotifs(2) :
                 x.object_path = n.object_path /\ x.type = n.type

\* ---------------------------------------------------------------------- C26
\* The step of an endpoint that answers: it leaves the event in progress and
\* the deletes in flight alone and puts its answer in `call`.
Answers(op) == call'.op = op /\ ev' = ev /\ deleting' = deleting

\* C26: mark_as_read and delete_subscription called with a user who does not
\* own the notification or subscription, or with an unknown id, answer False
\* (404) and change neither table; no request changes is_read of another
\* user's notification; a subscription is only deleted on its owner's
\* request; get_notifications returns exactly the requesting user's rows.
C26_OwnershipScoping ==
    [][ /\ Answers("mark_as_read") =>
               LET owned == \E n \in notifications :
                                n.id = call'.arg[1] /\ n.user_id = call'.arg[2]
               IN  /\ call'.result.success = owned
                   /\ call'.result.status = IF owned THEN 200 ELSE 404
                   /\ ~owned => UNCHANGED <<notifications, subscriptions>>
        /\ Answers("delete_subscription") =>
               /\ ~\E s \in subscriptions :
                       s.id = call'.arg[1] /\ s.user_id = call'.arg[2]
               /\ call'.result.success = FALSE
               /\ call'.result.status = 404
               /\ UNCHANGED <<notifications, subscriptions>>
        /\ \A n \in notifications, m \in notifications' :
               (m.id = n.id /\ m.is_read # n.is_read) =>
                   /\ call'.op \in {"mark_as_read", "bulk_mark_as_read"}
                   /\ call'.arg[2] = n.user_id
        /\ \A d \in deleting' \ deleting :
               \E s \in subscriptions : s.id = d.id /\ s.user_id = d.user_id
        /\ \A s \in subscriptions :
               (\A t \in subscriptions' : t.id # s.id) =>
                   \E d \in deleting : d.id = s.id /\ d.user_id = s.user_id
        /\ Answers("get_notifications") =>
               call'.result = {n \in notifications : n.user_id = call'.arg[1]}
      ]_vars

\* A user asked to mark another user's unread notification: the answer was
\* 404 and the notification is still unread.
C26_Witness ==
    /\ call.op = "mark_as_read"
    /\ call.result.success = FALSE
    /\ \E n \in notifications :
          /\ n.id = call.arg[1]
          /\ n.user_id \in Users \ {call.arg[2]}
          /\ n.is_read = FALSE

\* ---------------------------------------------------------------------- C27
\* C27: bulk_mark_as_read(ids, user) with a non-empty list sets is_read on
\* exactly the notifications whose id is in ids, whose recipient is user and
\* that were unread, answers status "success" with their number as
\* updated_count, and leaves every other notification as it was; the same
\* call made again right away would match nothing and answer 0; an empty
\* list is answered with an error and changes nothing.
C27_BulkMarkAsRead ==
    [][ Answers("bulk_mark_as_read") =>
            LET ids == call'.arg[1]
                user == call'.arg[2]
                target == {n \in notifications :
                              n.id \in ids /\ n.user_id = user /\ n.is_read = FALSE}
            IN  IF ids = {}
                THEN /\ call'.result.status = "error"
                     /\ UNCHANGED <<notifications, subscriptions>>
                ELSE /\ call'.result.status = "success"
                     /\ call'.result.updated_count = Cardinality(target)
                     /\ notifications' =
                            (notifications \ target) \cup
                            {[n EXCEPT !.is_read = TRUE] : n \in target}
                     /\ {n \in notifications' :
                            n.id \in ids /\ n.user_id = user /\ n.is_read = FALSE} = {}
                     /\ (call.op = "bulk_mark_as_read" /\ call.arg = call'.arg
                            /\ call.result.status = "success"
                            /\ \A n \in notifications :
                                   (n.id \in ids /\ n.user_id = user) => n.is_read)
                          => call'.result.updated_count = 0
      ]_vars

\* The second of two identical calls: the user's listed notification is
\* read already and the answer is 0.
C27_Witness ==
    /\ call.op = "bulk_mark_as_read"
    /\ call.result.status = "success"
    /\ call.result.updated_count = 0
    /\ \E n \in notifications :
          n.id \in call.arg[1] /\ n.user_id = call.arg[2] /\ n.is_read = TRUE

\* The first call: it marked one notification of the user and did not touch
\* the listed notification of somebody else.
C27_WitnessMarked ==
    /\ call.op = "bulk_mark_as_read"
    /\ call.result.updated_count = 1
    /\ \E n, m \in notifications :
          /\ n.id \in call.arg[1] /\ n.user_id = call.arg[2] /\ n.is_read = TRUE
          /\ m.id \in call.arg[1] /\ m.user_id # call.arg[2] /\ m.is_read = FALSE

\* ---------------------------------------------------------------------- C28
\* C28: the severity of every notification is the default severity of the
\* event_types row of its type, and "info" when there is no such row or the
\* row has no default severity; in both cases the notification is created:
\* a completed event has its audit notification and one notification for
\* every subscribed user.
C28_SeverityFromConfiguration ==
    /\ \A n \in notifications :
           LET rows == {t \in event_types : t.id = n.type}
           IN  /\ \A t \in rows :
                      t.default_severity_id.some =>
                          n.severity = t.default_severity_id.val
               /\ (\A t \in rows : ~t.default_severity_id.some) =>
                      n.severity = "info"
    /\ \A e \in 1..event_seq :
           Completed(e) =>
               /\ AuditNotifs(e) # {}
               /\ \A x \in AuditNotifs(e), s \in subscriptions :
                      ( /\ Allows(s, x.type)
                        /\ \/ s.path = x.object_path
                           \/ /\ s.include_children = TRUE
                              /\ NormalForm(s.path)
                              /\ IsStrictAncestor(s.path, x.object_path) ) =>
                          UserNotifs(e, s.user_id) # {}

\* A user's notification of a type that is not in the table, with the
\* fallback severity, next to a row that has another default.
C28_Witness ==
    /\ event_types # {}
    /\ \E t \in event_types : t.default_severity_id = Some("critical")
    /\ \E n \in notifications :
          /\ n.user_id \in Users
          /\ \A t \in event_types : t.id # n.type
          /\ n.severity = "info"

\* A notification with a configured severity other than "info", and one of a
\* type whose row has no default severity.
C28_WitnessConfigured ==
    \E n \in notifications :
        /\ n.user_id \in Users
        /\ \/ n.severity = "critical"
           \/ \E t \in event_types :
                  t.id = n.type /\ ~t.default_severity_id.some

\* ---------------------------------------------------------------------- C29
\* The write of the current user's notification has just failed.
WriteFailedStep ==
    /\ ev.pc = "create"
    /\ ev'.write_failed # ev.write_failed

\* C29 (as claimed): a notification write that fails is tried once more (the
\* handler stays on the same user for a second attempt), and only once; no
\* user ever holds two notifications of one event.
\* The code refutes it: the exception is logged by the per-user handler and
\* the loop goes on to the next user; there is no second attempt.
C29_RetriedOnce ==
    [][ /\ WriteFailedStep =>
               \/ /\ ev'.pc = "create"
                  /\ ev'.i = ev.i
                  /\ ev.subscribed_users[ev.i].user_id \notin ev.write_failed
               \/ ev.subscribed_users[ev.i].user_id \in ev.write_failed
        /\ \A u \in Users : Cardinality(UserNotifs(ev.id, u)) <= 1
      ]_vars

\* What the code does: a failed write is the user's only attempt; the
\* handler has moved on, the user is left without a notification of the
\* event, and nobody holds two.
C29_NeverRetried ==
    [][ /\ WriteFailedStep =>
               /\ ev'.pc = "system" \/ (ev'.pc = "create" /\ ev'.i = ev.i + 1)
               /\ ev.subscribed_users[ev.i].user_id \notin ev.write_failed
               /\ UserNotifs(ev.id, ev.subscribed_users[ev.i].user_id)' = {}
        /\ \A u \in Users : Cardinality(UserNotifs(ev.id, u)) <= 1
      ]_vars

\* ---------------------------------------------------------------------- C30
\* d is the display form of the name x: as long as x, with a space wherever
\* x has a hyphen or an underscore, and every letter in upper case when it
\* starts a run of letters and in lower case otherwise.
IsDisplayOf(d, x) ==
    /\ Len(d) = Len(x)
    /\ \A k \in DOMAIN x :
           LET starts == k = 1 \/ x[k - 1] \notin Lowers \cup Uppers
           IN  IF x[k] \in {"-", "_"} THEN d[k] = " "
               ELSE IF x[k] \in Lowers \cup Uppers
                    THEN /\ ToLower(d[k]) = ToLower(x[k])
                         /\ d[k] \in (IF starts THEN Uppers ELSE Lowers)
               ELSE d[k] = x[k]

\* C30: for a path with at least one segment and X the display form of its
\* last segment, the title is "New X created" for created, "X was updated"
\* for updated, "X was deleted" for deleted, "New comment on X" for
\* commented, and for any other type the display form of the event type,
\* " on ", and X.
C30_TitleTable ==
    (call.op = "_generate_title" /\ Segments(call.arg[1]) # <<>>) =>
        LET segs == Segments(call.arg[1])
            t == call.arg[2]
            title == call.result
        IN  \E X \in {SubSeq(title, i, j) : i \in 1..(Len(title) + 1),
                                             j \in 0..Len(title)} :
                /\ IsDisplayOf(X, segs[Len(segs)])
                /\ IF t = Str("created") THEN title = Str("New ") \o X \o Str(" created")
                   ELSE IF t = Str("updated") THEN title = X \o Str(" was updated")
                   ELSE IF t = Str("deleted") THEN title = X \o Str(" was deleted")
                   ELSE IF t = Str("commented") THEN title = Str("New comment on ") \o X
                   ELSE \E T \in {SubSeq(title, 1, j) : j \in 0..Len(title)} :
                            /\ IsDisplayOf(T, t)
                            /\ title = T \o Str(" on ") \o X

\* The type "a_b" on the path "/aB_a" gave "A B on Ab A".
C30_Witness ==
    /\ call.op = "_generate_title"
    /\ call.arg = << <<"/", "a", "B", "_", "a">>, <<"a", "_", "b">> >>
    /\ call.result = <<"A", " ", "B", " ", "o", "n", " ", "A", "b", " ", "A">>

\* ---------------------------------------------------------------------- C31
OtherType(t) == t \notin {Str("created"), Str("updated"), Str("deleted"), Str("commented")}

\* C31: for an event type other than created, updated, deleted and
\* commented, a path with at least one segment and a payload that names the
\* user, the content is the user name, " performed ", the event type
\* unchanged, " on ", and the display form X of the last segment.
C31_ContentKeepsEventType ==
    ( /\ call.op = "_generate_content"
      /\ Segments(call.arg[1]) # <<>>
      /\ OtherType(call.arg[2])
      /\ call.arg[3].user_name.some ) =>
        LET segs == Segments(call.arg[1])
            content == call.result
        IN  \E X \in {SubSeq(content, i, Len(content)) : i \in 1..(Len(content) + 1)} :
                /\ IsDisplayOf(X, segs[Len(segs)])
                /\ content = call.arg[3].user_name.val \o Str(" performed ")
                                \o call.arg[2] \o Str(" on ") \o X

\* What the code does instead: the underscores of the event type are
\* written as spaces.
C31_ContentReplacesUnderscores ==
    ( /\ call.op = "_generate_content"
      /\ Segments(call.arg[1]) # <<>>
      /\ OtherType(call.arg[2])
      /\ call.arg[3].user_name.some ) =>
        LET segs == Segments(call.arg[1])
            content == call.result
        IN  \E X \in {SubSeq(content, i, Len(content)) : i \in 1..(Len(content) + 1)} :
                /\ IsDisplayOf(X, segs[Len(segs)])
                /\ content = call.arg[3].user_name.val \o Str(" performed ")
                                \o Replace(call.arg[2], "_", " ") \o Str(" on ") \o X

\* ---------------------------------------------------------------------- C32
Checked == call.op = "check_subscription"

\* The user's subscriptions on the path itself, and those on a strict
\* ancestor that include the children, segment-wise.
OwnOnPath(u, path) ==
    {s \in subscriptions : s.user_id = u /\ SamePath(s.path, path)}

OwnAncestors(u, path) ==
    {s \in subscriptions :
        s.user_id = u /\ s.include_children /\ IsStrictAncestor(s.path, path)}

Nearest(S) ==
    {s \in S : \A t \in S : Len(Segments(t.path)) <= Len(Segments(s.path))}

\* The answer r is the one claimed for path and user u.
ClaimedAnswer(r, path, u) ==
    /\ r.status = 200
    /\ r.is_subscribed <=> (OwnOnPath(u, path) # {} \/ OwnAncestors(u, path) # {})
    /\ r.direct_subscription \subseteq OwnOnPath(u, path)
    /\ r.direct_subscription = {} <=> OwnOnPath(u, path) = {}
    /\ r.inherited_subscription \subseteq Nearest(OwnAncestors(u, path))
    /\ r.inherited_subscription = {} <=> OwnAncestors(u, path) = {}

\* C32: check_subscription(path, user) answers is_subscribed = true exactly
\* when the user has a subscription on the path itself or an
\* include_children subscription on a strict ancestor; direct_subscription
\* is the user's subscription on the path itself, inherited_subscription the
\* user's include_children subscription on the nearest such ancestor, if
\* any; other users' subscriptions do not count.
C32_CheckSubscription ==
    Checked => ClaimedAnswer(call.result, call.arg[1], call.arg[2])

\* The same holds when neither the path asked about nor a stored path ends
\* with a slash (the root excepted).
C32_CheckSubscriptionNoTrailingSlash ==
    ( /\ Checked
      /\ NormalForm(NormalizePath(call.arg[1]))
      /\ \A s \in subscriptions : NormalForm(s.path) ) =>
        ClaimedAnswer(call.result, call.arg[1], call.arg[2])

\* ---------------------------------------------------------------------- C33
\* The root, or a path of non-empty segments separated by single slashes.
RootOrWellFormed(p) == p \in {<<>>, P_root} \/ WellFormed(p)

\* C33: for paths without empty segments, is_child_path(ancestor, path) is
\* true exactly when path is strictly nested under ancestor segment by
\* segment; so it is false for equal paths, also when they differ by a
\* leading or trailing slash only, and false when ancestor is only a string
\* prefix of path.
C33_IsChildPath ==
    ( /\ call.op = "is_child_path"
      /\ RootOrWellFormed(call.arg[1])
      /\ RootOrWellFormed(call.arg[2]) ) =>
        (call.result <=> IsStrictAncestor(call.arg[1], call.arg[2]))

\* "/a" against "/ab" answered false.
C33_Witness ==
    /\ call.op = "is_child_path"
    /\ call.arg = <<P_a, <<"/", "a", "b">> >>
    /\ call.result = FALSE

\* "/a" against "/a/" answered false, and "/a" against "/a/b" true.
C33_WitnessEqual ==
    /\ call.op = "is_child_path"
    /\ call.arg = <<P_a, P_a_trail>>
    /\ call.result = FALSE

C33_WitnessNested ==
    /\ call.op = "is_child_path"
    /\ call.arg = <<P_a, P_ab>>
    /\ call.result = TRUE

\* ---------------------------------------------------------------------- C34
\* The stages of process_event: the subscription read, the loop over the
\* winners (write, then push, for each winner in turn), the audit write.
Stage(e) ==
    CASE e.pc = "parents" -> 1
      [] e.pc \in {"create", "publish"} -> 2
      [] e.pc = "system" -> 3
      [] OTHER -> 0

\* The write for this winner has been attempted: it is persisted or it failed.
Attempted(u) == UserNotifs(ev.id, u) # {} \/ u \in ev.rejected

WritesAudit == \E n \in notifications' : IsNew(n) /\ IsAudit(n)
WritesForUser == \E n \in notifications' : IsNew(n) /\ ~IsAudit(n)

NewMessages == DOMAIN published' \ DOMAIN published

\* C35: every message published on a user's channel carries a notification
\* of that user that was in the notification store before the publish was
\* issued, and every message ever published carries a notification that is
\* in the store.
C35_PersistBeforePush ==
    [][ /\ \A k \in NewMessages :
               \E n \in notifications :
                   /\ n.id = published'[k].data.id
                   /\ n.user_id = published'[k].data.user_id
                   /\ published'[k].subject = <<"notification", "user", n.user_id>>
        /\ \A k \in DOMAIN published' :
               \E n \in notifications' : n.id = published'[k].data.id
      ]_vars

\* Two users have been pushed their notification.
C35_Witness ==
    /\ Len(published) = 2
    /\ published[1].data.user_id # published[2].data.user_id
    /\ \A k \in DOMAIN published :
           \E n \in notifications : n.id = published[k].data.id

\* ---------------------------------------------------------------------- C36
\* C36: in every reachable state every persisted notification with a
\* subscription_id refers to a subscription that is in the subscription
\* store, also when a delete_subscription runs while process_event holds the
\* subscription it has read.
C36_ReferentialIntegrity ==
    \A n \in notifications :
        n.subscription_id # NoId => \E s \in subscriptions : s.id = n.subscription_id

\* The subscription of a winner was deleted after the event had read it, and
\* the write for that winner was refused.
C36_Witness ==
    /\ ev.pc \in {"create", "publish", "system"}
    /\ \E k \in DOMAIN ev.subscribed_users :
           /\ ev.subscribed_users[k].user_id \in ev.write_failed
           /\ \A s \in subscriptions : s.id # ev.subscribed_users[k].subscription.id

\* A delete has nulled the reference of one notification while another
\* notification still refers to its subscription.
C36_WitnessDeleteRefused ==
    /\ deleting = {}
    /\ \E n \in notifications : n.subscription_id # NoId
    /\ \E n \in notifications :
           /\ n.subscription_id = NoId
           /\ ~IsAudit(n)

\* ---------------------------------------------------------------------- C37
\* A step of process_event.
EventStep == ev' # ev \/ event_seq' # event_seq

\* C37: a step of process_event, in an event that ends normally or in one
\* that fails, leaves every subscription, every event-type configuration row
\* and every notification that already exists unchanged; what it adds to the
\* notification store are new notifications.
C37_FanOutFrame ==
    [][ EventStep =>
          /\ subscriptions' = subscriptions
          /\ event_types' = event_types
          /\ notifications \subseteq notifications'
          /\ \A n \in notifications' \ notifications : IsNew(n)
      ]_vars

\* A second event has been processed to its end after a first one that
\* left notifications.
C37_Witness ==
    /\ event_seq = 2
    /\ ev.pc = "idle"
    /\ subscriptions # {}
    /\ UserNotifs(1, "alice") # {}
    /\ AuditNotifs(2) # {}

\* An event failed after an earlier one had left notifications.
C37_WitnessFailed ==
    /\ event_seq = 2
    /\ ev.pc = "idle"
    /\ 2 \in failed
    /\ UserNotifs(1, "alice") # {}

\* ---------------------------------------------------------------------- C38
\* No subscription restricts the event types.
Unrestricted == \A s \in subscriptions : s.notification_types.isNone

\* The first event has been processed to its end on the path that
\* check_subscription was asked about.
CheckedEventPath ==
    /\ Checked
    /\ Completed(1)
    /\ \E a \in AuditNotifs(1) : a.object_path = NormalizePath(call.arg[1])

\* The answer r for user u agrees with what the event persisted.
Agrees(r, u) ==
    /\ r.status = 200
    /\ r.is_subscribed <=> UserNotifs(1, u) # {}
    /\ \A n \in UserNotifs(1, u) : n.inherited <=> r.direct_subscription = {}

\* C38: in a store where no subscription restricts notification_types, for
\* every user and path, check_subscription answers is_subscribed = true
\* exactly when processing an event on that path persists a notification for
\* the user, and that notification is inherited exactly when the answer has
\* no direct_subscription.
C38_CheckAgreesWithFanOut ==
    (CheckedEventPath /\ Unrestricted) => Agrees(call.result, call.arg[2])

\* The agreement holds in the stores in which no user has two rows on one
\* path.
C38_AgreementWithoutDuplicates ==
    ( /\ CheckedEventPath
      /\ Unrestricted
      /\ \A s, t \in subscriptions :
             (s.user_id = t.user_id /\ s.path = t.path) => s = t ) =>
        Agrees(call.result, call.arg[2])

\* ---------------------------------------------------------------------- C39
\* The step of main.py's process_event that commits its notifications.
MainCommitStep == ev.pc = "system" /\ ev'.pc = "idle"

\* What EventProcessor.process_event persists and publishes, no write or
\* push failing, for the rows main.py's process_event has read (in the
\* order it read them): one notification and one message per entry of
\* subscribed_users.
AppWinners ==
    Range(FilterAndDeduplicate(ev.subscriptions, ev.normalized_path, ev.event_type, <<>>))

AppPersisted ==
    {<<w.user_id, w.subscription.id, w.subscription.path # ev.normalized_path>> :
        w \in AppWinners}

AppChannels == {<<"notification", "user", w.user_id>> : w \in AppWinners}

\* What main.py's process_event persists for subscribers, and where it has
\* published.
MainPersisted ==
    {<<n.user_id, n.subscription_id, n.inherited>> :
        n \in {m \in notifications' : IsNew(m) /\ ~IsAudit(m)}}

MainChannels == {published[k].subject : k \in EventMessages(ev.id)}

\* C39: for every subscription store and every well-formed event, no write
\* or push failing, main.py's process_event persists the same (recipient,
\* causing subscription, inherited) notifications as
\* EventProcessor.process_event and publishes on the same user channels.
C39_SameFanOut ==
    [][ MainCommitStep => (MainPersisted = AppPersisted /\ MainChannels = AppChannels)
      ]_vars

\* The two agree in the stores in which no subscription restricts the types.
C39_SameFanOutWhenUnrestricted ==
    [][ (MainCommitStep /\ Unrestricted) =>
            (MainPersisted = AppPersisted /\ MainChannels = AppChannels)
      ]_vars

====
